---- MODULE Spec2Model ----
(***************************************************************************)
(* Model of the article relevance pipeline of ai_stock_news:               *)
(*   NewsFetcher.fetch_news          (src/src/news_fetcher.py)             *)
(*   NewsProcessor.filter_articles   (src/src/news_processor.py)           *)
(*   NewsProcessor.rank_articles     (src/src/news_processor.py)           *)
(*   SentimentAnalyzer               (src/src/sentiment_analyzer.py)       *)
(* Texts are sequences of one-character strings, so that the regular       *)
(* expressions the code compiles (\b, re.escape, re.IGNORECASE, search,    *)
(* findall) are modelled by what they do on characters.                    *)
(***************************************************************************)
EXTENDS Integers, Sequences, FiniteSets, TLC

VARIABLES
    pc,                 \* position of the component under analysis
    config,             \* the loaded user configuration (self.config)
    use_all_articles,   \* argument of generate_news_summary
    store,              \* the article dict objects, by object identity
    articles,           \* list handed to filter_articles (object ids)
    filtered_articles,  \* list returned by filter_articles
    ranked_articles,    \* list returned by rank_articles
    reranked_articles,  \* list returned by a second call of rank_articles
    ranked_is_argument, \* rank_articles returned the list object it was given
    sources,            \* NewsFetcher.sources (source id -> source)
    feeds,              \* what retrieving each feed url yields
    sources_file,       \* what is at NewsFetcher.sources_file
    config_file,        \* what is at NewsFetcher.config_file
    fetch_result,       \* outcome of NewsFetcher.fetch_news
    all_articles,       \* the list fetch_news collected before sorting
    retrieved,          \* the urls fetch_news handed to feedparser.parse
    date_str,           \* argument of _parse_date
    parse_result,       \* outcome of _parse_date(date_str)
    export_format,      \* argument of generate_news_summary
    summary_articles,   \* the list handed to Summarizer.generate_summary
    calls,              \* the stages generate_news_summary has invoked, in order
    sched_file,         \* what is at config/config.json when the schedule is set up
    at_time,            \* the time of day the job is scheduled at
    clock,              \* the time of day
    next_run,           \* time left until the job is due (job.next_run - now)
    active_runs,        \* runs of generate_news_summary in progress
    unserved_ticks,     \* scheduled times passed since the last run started
    run_raised,         \* a scheduled run has raised
    delivery_file,      \* what is at DeliveryManager.config_file
    method_outcome,     \* what each delivery method does when it is called
    attempted,          \* the delivery methods deliver_summary has called, in order
    success,            \* the local variable success of deliver_summary
    deliver_result,     \* outcome of deliver_summary
    email_config,       \* config['delivery']['email'], when there is one
    retry_count,        \* the local variable retry_count of _deliver_via_email
    attempts,           \* the SMTP attempts made so far, each with how it ended
    email_result,       \* outcome of _deliver_via_email
    title_len,          \* len(title) of _deliver_via_discord
    summary_len,        \* len(summary) of _deliver_via_discord
    posted,             \* the messages posted to the webhook, with the responses
    discord_result,     \* outcome of _deliver_via_discord
    ai,                 \* behaviour of the external AI classifier
    sentiment_results,  \* outcome of SentimentAnalyzer.analyze_sentiment
    text,               \* argument of _analyze_article_sentiment
    article_sentiment   \* outcome of _analyze_article_sentiment(text)

vars == <<pc, config, use_all_articles, store, articles, filtered_articles, ranked_articles,
          reranked_articles, ranked_is_argument,
          sources_file, config_file, sources, feeds, fetch_result, all_articles,
          retrieved, date_str, parse_result, export_format, summary_articles, calls,
          sched_file, at_time, clock, next_run, active_runs, unserved_ticks, run_raised,
          delivery_file, method_outcome, attempted, success, deliver_result,
          email_config, retry_count, attempts, email_result,
          title_len, summary_len, posted, discord_result,
          ai, sentiment_results,
          text, article_sentiment>>

procVars == <<use_all_articles, store, articles, filtered_articles, ranked_articles,
              reranked_articles, ranked_is_argument>>
fetchVars == <<sources_file, config_file, sources, feeds, fetch_result, all_articles,
               retrieved>>
parseVars == <<date_str, parse_result>>
mainVars == <<export_format, summary_articles, calls>>
schedVars == <<sched_file, at_time, clock, next_run, active_runs, unserved_ticks,
               run_raised>>
sentVars == <<ai, sentiment_results, text, article_sentiment>>
deliverVars == <<delivery_file, method_outcome, attempted, success, deliver_result>>
emailVars == <<email_config, retry_count, attempts, email_result>>
discordVars == <<title_len, summary_len, posted, discord_result>>
deliveryVars == <<deliverVars, emailVars, discordVars>>

----------------------------------------------------------------------------
(* Bounds of the model *)

MaxArticles == 3        \* articles in one list handed to the processor
MaxChars == 2           \* characters of title and summary over one list

----------------------------------------------------------------------------
(* Characters and regular-expression primitives *)

UpperChars == <<"A", "B", "C", "D", "E", "F", "G", "H", "I", "J", "K", "L", "M", "N", "O", "P", "Q", "R", "S", "T", "U", "V", "W", "X", "Y", "Z">>
LowerChars == <<"a", "b", "c", "d", "e", "f", "g", "h", "i", "j", "k", "l", "m", "n", "o", "p", "q", "r", "s", "t", "u", "v", "w", "x", "y", "z">>
Digits == {"0", "1", "2", "3", "4", "5", "6", "7", "8", "9"}

Range(s) == {s[i] : i \in 1..Len(s)}

\* str.lower() / re.IGNORECASE on one character
LowerMap == [c \in Range(UpperChars) |-> LowerChars[CHOOSE i \in 1..26 : UpperChars[i] = c]]
Lower(c) == IF c \in DOMAIN LowerMap THEN LowerMap[c] ELSE c

\* the characters the regular expression class \w accepts
WordChars == Range(UpperChars) \cup Range(LowerChars) \cup Digits \cup {"_"}
IsWordChar(c) == c \in WordChars

\* f"{title} {summary}"
Content(a) == a.title \o <<" ">> \o a.summary

\* re.escape(p) with re.IGNORECASE: p's characters match literally at s[i..]
LitAt(p, s, i) ==
    /\ i >= 1
    /\ i + Len(p) - 1 <= Len(s)
    /\ \A k \in 1..Len(p) : Lower(s[i + k - 1]) = Lower(p[k])

WordAt(s, i) == i >= 1 /\ i <= Len(s) /\ IsWordChar(s[i])

\* \b just before s[i]: exactly one of the two neighbours is a word character
Boundary(s, i) == WordAt(s, i - 1) # WordAt(s, i)

\* re.compile(r'\b' + re.escape(ticker) + r'\b', re.IGNORECASE) matching at i
TickerMatchAt(t, s, i) == Boundary(s, i) /\ LitAt(t, s, i) /\ Boundary(s, i + Len(t))

\* re.compile(re.escape(keyword), re.IGNORECASE) matching at i
KeywordMatchAt(k, s, i) == LitAt(k, s, i)

\* pattern.search(s)
TickerSearch(t, s) == \E i \in 1..(Len(s) + 1) : TickerMatchAt(t, s, i)
KeywordSearch(k, s) == \E i \in 1..(Len(s) + 1) : KeywordMatchAt(k, s, i)

\* len(pattern.findall(s)): leftmost non-overlapping matches, scanned from i
RECURSIVE TickerFindall(_, _, _)
TickerFindall(t, s, i) ==
    IF i > Len(s) + 1 THEN 0
    ELSE IF TickerMatchAt(t, s, i)
         THEN 1 + TickerFindall(t, s, i + (IF Len(t) = 0 THEN 1 ELSE Len(t)))
         ELSE TickerFindall(t, s, i + 1)

RECURSIVE KeywordFindall(_, _, _)
KeywordFindall(k, s, i) ==
    IF i > Len(s) + 1 THEN 0
    ELSE IF KeywordMatchAt(k, s, i)
         THEN 1 + KeywordFindall(k, s, i + (IF Len(k) = 0 THEN 1 ELSE Len(k)))
         ELSE KeywordFindall(k, s, i + 1)

RECURSIVE SumSeq(_)
SumSeq(q) == IF q = <<>> THEN 0 ELSE Head(q) + SumSeq(Tail(q))

----------------------------------------------------------------------------
(* NewsProcessor: filter_articles and rank_articles *)

\* any(pattern.search(content) for pattern in ticker_patterns)
TickerMatch(tickers, content) == \E j \in 1..Len(tickers) : TickerSearch(tickers[j], content)

\* any(pattern.search(content) for pattern in keyword_patterns)
KeywordMatch(keywords, content) == \E j \in 1..Len(keywords) : KeywordSearch(keywords[j], content)

KeepAnd(a, tickers, keywords) ==
    (TickerMatch(tickers, Content(a)) /\ KeywordMatch(keywords, Content(a)))
        \/ (tickers = <<>> /\ keywords = <<>>)

\* the condition under which the loop of filter_articles appends the article
Keep(a, tickers, keywords) ==
    TickerMatch(tickers, Content(a)) \/ KeywordMatch(keywords, Content(a))
        \/ (tickers = <<>> /\ keywords = <<>>)

\* the loop of filter_articles over the list l of article objects
RECURSIVE FilterLoop(_, _, _, _)
FilterLoop(l, st, tickers, keywords) ==
    IF l = <<>> THEN <<>>
    ELSE (IF Keep(st[Head(l)], tickers, keywords) THEN <<Head(l)>> ELSE <<>>)
             \o FilterLoop(Tail(l), st, tickers, keywords)

filter_articlesNoBypass(l, st, filter_by_preferences) ==
    IF l = <<>> THEN <<>>
    ELSE FilterLoop(l, st, config.tickers, config.keywords)

filter_articles(l, st, filter_by_preferences) ==
    IF l = <<>> THEN <<>>
    ELSE IF ~filter_by_preferences THEN l
    ELSE IF config.tickers = <<>> /\ config.keywords = <<>> THEN l
    ELSE FilterLoop(l, st, config.tickers, config.keywords)

\* sum(len(pattern.findall(text)) for pattern in ticker_patterns)
TickerCount(tickers, txt) ==
    SumSeq([j \in 1..Len(tickers) |-> TickerFindall(tickers[j], txt, 1)])

\* sum(len(pattern.findall(text)) for pattern in keyword_patterns)
KeywordCount(keywords, txt) ==
    SumSeq([j \in 1..Len(keywords) |-> KeywordFindall(keywords[j], txt, 1)])

RelevanceScoreTitleOnly(a, tickers, keywords) ==
    (TickerCount(tickers, a.title) + KeywordCount(keywords, a.title)) * 3

RelevanceScoreFlat(a, tickers, keywords) ==
    TickerCount(tickers, Content(a)) + KeywordCount(keywords, Content(a))
        + (TickerCount(tickers, a.title) + KeywordCount(keywords, a.title))

\* the relevance_score rank_articles computes for one article
RelevanceScore(a, tickers, keywords) ==
    TickerCount(tickers, Content(a)) + KeywordCount(keywords, Content(a))
        + (TickerCount(tickers, a.title) + KeywordCount(keywords, a.title)) * 2

\* a scored copy that keeps the title only
WithScoreOfTitle(a, score) == [title |-> a.title, relevance_score |-> score]

\* article['relevance_score'] = relevance_score
WithScore(a, score) ==
    [f \in DOMAIN a \cup {"relevance_score"} |->
        IF f = "relevance_score" THEN score ELSE a[f]]

\* x.get('relevance_score', 0)
ScoreKey(a) == IF "relevance_score" \in DOMAIN a THEN a.relevance_score ELSE 0

ScoreAdded(a, score) == ScoreKey(a) + score

\* the value rank_articles stores in article['relevance_score']
ScoreStored(a, score) == score

InsertDescUnstable(x, r, st) ==
    LET p == Cardinality({j \in 1..Len(r) : ScoreKey(st[r[j]]) > ScoreKey(st[x])})
    IN  SubSeq(r, 1, p) \o <<x>> \o SubSeq(r, p + 1, Len(r))

\* place x in the descending list r behind every element whose key is not smaller
InsertDesc(x, r, st) ==
    LET p == Cardinality({j \in 1..Len(r) : ScoreKey(st[r[j]]) >= ScoreKey(st[x])})
    IN  SubSeq(r, 1, p) \o <<x>> \o SubSeq(r, p + 1, Len(r))

\* sorted(articles, key=lambda x: x.get('relevance_score', 0), reverse=True)
RECURSIVE SortedByScore(_, _)
SortedByScore(l, st) ==
    IF l = <<>> THEN <<>>
    ELSE InsertDesc(l[Len(l)], SortedByScore(SubSeq(l, 1, Len(l) - 1), st), st)

RankCriteria == config.tickers # <<>> \/ config.keywords # <<>>

ScoredWithoutCriteria(l, st) ==
    [id \in DOMAIN st |->
        IF id \in Range(l)
        THEN WithScore(st[id], RelevanceScore(st[id], config.tickers, config.keywords))
        ELSE st[id]]

\* the store after the scoring loop of rank_articles over the list l
Scored(l, st) ==
    IF l = <<>> \/ ~RankCriteria THEN st
    ELSE [id \in DOMAIN st |->
            IF id \in Range(l)
            THEN WithScore(st[id],
                    ScoreStored(st[id],
                        RelevanceScore(st[id], config.tickers, config.keywords)))
            ELSE st[id]]

rank_articles(l, st) ==
    IF l = <<>> THEN <<>>
    ELSE IF ~RankCriteria THEN l
    ELSE SortedByScore(l, Scored(l, st))

----------------------------------------------------------------------------
(* Inputs of the processor *)

Chars == {"a", "A", "^"}

SeqsOfLen(S, n) == IF n = 0 THEN {<<>>} ELSE [1..n -> S]

\* articles whose title and summary have at most b characters together
ArticlesWithin(b) ==
    UNION {{[title |-> t, summary |-> s] :
                t \in SeqsOfLen(Chars, p[1]), s \in SeqsOfLen(Chars, p[2])} :
           p \in {q \in (0..b) \X (0..b) : q[1] + q[2] <= b}}

ArticleSize(a) == Len(a.title) + Len(a.summary)

\* lists of at most n articles with at most b characters in all
RECURSIVE ArticleLists(_, _)
ArticleLists(n, b) ==
    IF n = 0 THEN {<<>>}
    ELSE {<<>>} \cup
         UNION {{<<a>> \o rest : rest \in ArticleLists(n - 1, b - ArticleSize(a))} :
                a \in ArticlesWithin(b)}

\* the tickers and keywords of the configurations tried: <<tickers, keywords>>
ProcConfigs ==
    { << <<>>, <<>> >>,
      << <<(<<"a">>)>>, <<>> >>,
      << <<(<<"^", "a">>)>>, <<>> >>,
      << <<>>, <<(<<"a">>)>> >>,
      << <<(<<"a">>)>>, <<(<<"^">>)>> >>,
      << <<(<<"a", "a">>), (<<"a">>)>>, <<(<<"^">>)>> >> }

NoConfig == [tickers |-> <<>>, keywords |-> <<>>, use_ai |-> FALSE, news_sources |-> <<>>]

ProcIdle ==
    /\ use_all_articles = FALSE
    /\ store = <<>>
    /\ articles = <<>>
    /\ filtered_articles = <<>>
    /\ ranked_articles = <<>>
    /\ reranked_articles = <<>>
    /\ ranked_is_argument = FALSE

FetchIdle ==
    /\ sources_file = <<>>
    /\ config_file = <<>>
    /\ sources = <<>>
    /\ feeds = <<>>
    /\ fetch_result = <<>>
    /\ all_articles = <<>>
    /\ retrieved = <<>>

ParseIdle ==
    /\ date_str = <<>>
    /\ parse_result = <<>>

MainIdle ==
    /\ export_format = "none"
    /\ summary_articles = <<>>
    /\ calls = <<>>

DeliverIdle ==
    /\ delivery_file = <<>>
    /\ method_outcome = <<>>
    /\ attempted = <<>>
    /\ success = FALSE
    /\ deliver_result = <<>>

EmailIdle ==
    /\ email_config = <<>>
    /\ retry_count = 0
    /\ attempts = <<>>
    /\ email_result = <<>>

DiscordIdle ==
    /\ title_len = 0
    /\ summary_len = 0
    /\ posted = <<>>
    /\ discord_result = <<>>

DeliveryIdle == DeliverIdle /\ EmailIdle /\ DiscordIdle

SchedIdle ==
    /\ sched_file = <<>>
    /\ at_time = 0
    /\ clock = 0
    /\ next_run = 0
    /\ active_runs = 0
    /\ unserved_ticks = 0
    /\ run_raised = FALSE

SentIdle ==
    /\ ai = <<>>
    /\ sentiment_results = <<>>
    /\ text = <<>>
    /\ article_sentiment = <<>>

InitProc ==
    /\ pc = "start"
    /\ \E c \in ProcConfigs :
          config = [NoConfig EXCEPT !.tickers = c[1], !.keywords = c[2]]
    /\ use_all_articles \in BOOLEAN
    /\ \E l \in ArticleLists(MaxArticles, MaxChars) :
          /\ store = l
          /\ articles = [i \in 1..Len(l) |-> i]
    /\ filtered_articles = <<>>
    /\ ranked_articles = <<>>
    /\ reranked_articles = <<>>
    /\ ranked_is_argument = FALSE
    /\ FetchIdle
    /\ ParseIdle
    /\ MainIdle
    /\ SentIdle
    /\ SchedIdle
    /\ DeliveryIdle

\* rank_articles returns the list object it was given when the list is not
\* empty and no ticker or keyword is configured (return articles); otherwise
\* it returns a new list ([] or the result of sorted)
ReturnsArgument(l) == l # <<>> /\ ~RankCriteria

\* main.py: filtered_articles = news_processor.filter_articles(articles, ...)
FilterArticles ==
    /\ pc = "start"
    /\ filtered_articles' = filter_articles(articles, store, ~use_all_articles)
    /\ pc' = "filtered"
    /\ UNCHANGED <<config, use_all_articles, store, articles, ranked_articles,
                   reranked_articles, ranked_is_argument, fetchVars, parseVars, mainVars, sentVars, schedVars, deliveryVars>>

\* main.py: ranked_articles = news_processor.rank_articles(filtered_articles)
RankArticles ==
    /\ pc = "filtered"
    /\ store' = Scored(filtered_articles, store)
    /\ ranked_articles' = rank_articles(filtered_articles, store)
    /\ ranked_is_argument' = ReturnsArgument(filtered_articles)
    /\ pc' = "ranked"
    /\ UNCHANGED <<config, use_all_articles, articles, filtered_articles,
                   reranked_articles, fetchVars, parseVars, mainVars, sentVars, schedVars, deliveryVars>>

\* rank_articles called once more, on the unranked list it was given before or
\* on the list it returned
RankAgain ==
    /\ pc = "ranked"
    /\ \E l \in {filtered_articles, ranked_articles} :
          /\ store' = Scored(l, store)
          /\ reranked_articles' = rank_articles(l, store)
          /\ ranked_is_argument' = ReturnsArgument(l)
    /\ pc' = "reranked"
    /\ UNCHANGED <<config, use_all_articles, articles, filtered_articles,
                   ranked_articles, fetchVars, parseVars, mainVars, sentVars, schedVars, deliveryVars>>

NextProc == FilterArticles \/ RankArticles \/ RankAgain

SpecProc == InitProc /\ [][NextProc]_vars

----------------------------------------------------------------------------
(* SentimentAnalyzer *)

RecursionLimit == 3     \* nested AI classifications the interpreter's stack allows
MaxWords == 3           \* words of a text handed to _analyze_article_sentiment
MaxSentArticles == 2    \* articles handed to analyze_sentiment
MaxSentWords == 2       \* words of title and summary over one such list

positive_words ==
    <<
      <<"u", "p">>,
      <<"r", "i", "s", "e">>,
      <<"g", "a", "i", "n">>,
      <<"g", "r", "o", "w", "t", "h">>,
      <<"p", "r", "o", "f", "i", "t">>,
      <<"p", "o", "s", "i", "t", "i", "v", "e">>,
      <<"b", "u", "l", "l", "i", "s", "h">>,
      <<"o", "u", "t", "p", "e", "r", "f", "o", "r", "m">>,
      <<"b", "e", "a", "t">>,
      <<"e", "x", "c", "e", "e", "d">>,
      <<"s", "t", "r", "o", "n", "g">>,
      <<"s", "u", "c", "c", "e", "s", "s">>,
      <<"o", "p", "p", "o", "r", "t", "u", "n", "i", "t", "y">>,
      <<"i", "m", "p", "r", "o", "v", "e">>,
      <<"a", "d", "v", "a", "n", "t", "a", "g", "e">> >>

negative_words ==
    <<
      <<"d", "o", "w", "n">>,
      <<"f", "a", "l", "l">>,
      <<"d", "r", "o", "p">>,
      <<"d", "e", "c", "l", "i", "n", "e">>,
      <<"l", "o", "s", "s">>,
      <<"n", "e", "g", "a", "t", "i", "v", "e">>,
      <<"b", "e", "a", "r", "i", "s", "h">>,
      <<"u", "n", "d", "e", "r", "p", "e", "r", "f", "o", "r", "m">>,
      <<"m", "i", "s", "s">>,
      <<"w", "e", "a", "k">>,
      <<"f", "a", "i", "l">>,
      <<"r", "i", "s", "k">>,
      <<"c", "o", "n", "c", "e", "r", "n">>,
      <<"p", "r", "o", "b", "l", "e", "m">>,
      <<"c", "h", "a", "l", "l", "e", "n", "g", "e">> >>

\* text.lower()
LowerText(s) == [i \in 1..Len(s) |-> Lower(s[i])]

\* re.search(r'\b' + re.escape(word) + r'\b', s)
WordSearch(word, s) ==
    \E i \in 1..(Len(s) + 1) :
        /\ Boundary(s, i)
        /\ i + Len(word) - 1 <= Len(s)
        /\ \A k \in 1..Len(word) : s[i + k - 1] = word[k]
        /\ Boundary(s, i + Len(word))

\* sum(1 for word in words if re.search(..., text.lower()))
CountWords(words, s) ==
    Cardinality({j \in 1..Len(words) : WordSearch(words[j], LowerText(s))})

\* the rule-based part of _analyze_article_sentiment
RuleBased(s) ==
    LET positive_count == CountWords(positive_words, s)
        negative_count == CountWords(negative_words, s)
    IN  IF positive_count > negative_count THEN "positive"
        ELSE IF negative_count > positive_count THEN "negative"
        ELSE "neutral"

Returned(v) == [status |-> "returned", value |-> v]
Raised(e) == [status |-> "raised", value |-> e]

AiLabelFirstWord(content) == content[1]

\* the label _analyze_sentiment_with_ai reads in the response content, a
\* sequence of lower-case words: 'positive' in content is looked for first
AiLabel(content) ==
    IF "positive" \in Range(content) THEN "positive"
    ELSE IF "negative" \in Range(content) THEN "negative"
    ELSE "neutral"

\* _analyze_article_sentiment and _analyze_sentiment_with_ai call each other:
\* depth is the number of AI classifications already on the stack. The AI
\* service raises on its first ai.fails calls and answers ai.answer afterwards.
RECURSIVE analyze_article_sentiment(_, _)
RECURSIVE analyze_sentiment_with_ai(_, _)
analyze_article_sentiment(s, depth) ==
    IF config.use_ai THEN analyze_sentiment_with_ai(s, depth)
    ELSE Returned(RuleBased(s))

analyze_sentiment_with_ai(s, depth) ==
    IF depth >= RecursionLimit THEN Raised("RecursionError")
    ELSE IF depth < ai.fails THEN analyze_article_sentiment(s, depth + 1)
    ELSE Returned(AiLabel(ai.answer))

\* [ticker for ticker, pattern in ticker_patterns.items() if pattern.search(content)]
RECURSIVE Dedup(_)
Dedup(q) ==
    IF q = <<>> THEN <<>>
    ELSE LET r == Dedup(SubSeq(q, 1, Len(q) - 1))
         IN  IF q[Len(q)] \in Range(r) THEN r ELSE Append(r, q[Len(q)])

Mentioned(tickers, content) ==
    SelectSeq(Dedup(tickers), LAMBDA t : TickerSearch(t, content))

EmptyBucket == [positive |-> 0, negative |-> 0, neutral |-> 0, articles |-> <<>>]

AddToBucketFront(b, a, label) ==
    [b EXCEPT ![label] = @ + 1,
              !.articles = <<[title |-> a.title, sentiment |-> label,
                              source |-> a.source, link |-> a.link]>> \o @]

\* sentiment_results[ticker][article_sentiment] += 1 and the append of the record
AddToBucket(b, a, label) ==
    [b EXCEPT ![label] = @ + 1,
              !.articles = Append(@, [title |-> a.title, sentiment |-> label,
                                      source |-> a.source, link |-> a.link])]

\* the loop of analyze_sentiment over the articles l, res the buckets so far
RECURSIVE AnalyzeLoop(_, _)
AnalyzeLoop(l, res) ==
    IF l = <<>> THEN Returned(res)
    ELSE LET a == Head(l)
             mentioned_tickers == Mentioned(config.tickers, Content(a))
         IN  IF mentioned_tickers = <<>> THEN AnalyzeLoop(Tail(l), res)
             ELSE LET c == analyze_article_sentiment(Content(a), 0)
                  IN  IF c.status = "raised" THEN c
                      ELSE AnalyzeLoop(Tail(l),
                              [t \in DOMAIN res |->
                                  IF t \in Range(mentioned_tickers)
                                  THEN AddToBucket(res[t], a, c.value)
                                  ELSE res[t]])

analyze_sentiment(l) ==
    IF l = <<>> THEN Returned(<<>>)
    ELSE IF config.tickers = <<>> THEN Returned(<<>>)
    ELSE AnalyzeLoop(l, [t \in Range(config.tickers) |-> EmptyBucket])

----------------------------------------------------------------------------
(* Inputs of the sentiment analyzer: texts are words joined by blanks *)

Words == { <<"u", "p">>, <<"G", "a", "i", "n">>, <<"d", "o", "w", "n">>,
           <<"T", "S", "L", "A">> }

RECURSIVE JoinWords(_)
JoinWords(ws) ==
    IF ws = <<>> THEN <<>>
    ELSE IF Len(ws) = 1 THEN ws[1]
    ELSE ws[1] \o <<" ">> \o JoinWords(Tail(ws))

WordSeqs(n) == UNION {SeqsOfLen(Words, k) : k \in 0..n}

\* articles whose title and summary have at most b words together
SentArticlesWithin(b) ==
    UNION {{[title |-> JoinWords(t), summary |-> JoinWords(s),
             source |-> "Reuters", link |-> "link", words |-> p[1] + p[2]] :
                t \in SeqsOfLen(Words, p[1]), s \in SeqsOfLen(Words, p[2])} :
           p \in {q \in (0..b) \X (0..b) : q[1] + q[2] <= b}}

RECURSIVE SentArticleLists(_, _)
SentArticleLists(n, b) ==
    IF n = 0 THEN {<<>>}
    ELSE {<<>>} \cup
         UNION {{<<[f \in DOMAIN a \ {"words"} |-> a[f]]>> \o rest :
                    rest \in SentArticleLists(n - 1, b - a.words)} :
                a \in SentArticlesWithin(b)}

SentTickerLists ==
    { <<>>, <<(<<"T", "S", "L", "A">>)>>, <<(<<"T", "S", "L", "A">>), (<<"U", "P">>)>> }

Labels == {"positive", "negative", "neutral"}

\* the AI service: fails on its first calls then answers, or fails for ever
\* what the model may write in response.choices[0].message.content
AiContents ==
    {<<l>> : l \in Labels} \cup {<<"negative", "positive">>, <<"unclear">>}

AiBehaviours ==
    {[fails |-> n, answer |-> c] : n \in 0..(RecursionLimit - 1), c \in AiContents}
        \cup {[fails |-> RecursionLimit, answer |-> <<"neutral">>]}

NoAi == [fails |-> 0, answer |-> <<"neutral">>]

\* the configurations of the classifier: rule-based, or AI with each behaviour
SentModes ==
    {<<FALSE, NoAi>>} \cup {<<TRUE, b>> : b \in AiBehaviours}

InitClassify ==
    /\ pc = "start"
    /\ \E m \in SentModes :
          /\ config = [NoConfig EXCEPT !.use_ai = m[1]]
          /\ ai = m[2]
    /\ \E ws \in WordSeqs(MaxWords) : text = JoinWords(ws)
    /\ article_sentiment = <<>>
    /\ sentiment_results = <<>>
    /\ ProcIdle
    /\ FetchIdle
    /\ ParseIdle
    /\ MainIdle
    /\ SchedIdle
    /\ DeliveryIdle

\* analyze_sentiment: article_sentiment = self._analyze_article_sentiment(content)
ClassifyArticle ==
    /\ pc = "start"
    /\ article_sentiment' = analyze_article_sentiment(text, 0)
    /\ pc' = "classified"
    /\ UNCHANGED <<config, ai, text, sentiment_results, procVars, fetchVars, parseVars, mainVars, schedVars, deliveryVars>>

NextClassify == ClassifyArticle

SpecClassify == InitClassify /\ [][NextClassify]_vars

InitSent ==
    /\ pc = "start"
    /\ \E t \in SentTickerLists, m \in SentModes :
          /\ m[2].fails \in {0, RecursionLimit}   \* answers at once, or never
          /\ config = [NoConfig EXCEPT !.tickers = t, !.use_ai = m[1]]
          /\ ai = m[2]
    /\ \E l \in SentArticleLists(MaxSentArticles, MaxSentWords) :
          /\ store = l
          /\ ranked_articles = [i \in 1..Len(l) |-> i]
    /\ use_all_articles = FALSE
    /\ articles = <<>>
    /\ filtered_articles = <<>>
    /\ reranked_articles = <<>>
    /\ ranked_is_argument = FALSE
    /\ sentiment_results = <<>>
    /\ text = <<>>
    /\ article_sentiment = <<>>
    /\ FetchIdle
    /\ ParseIdle
    /\ MainIdle
    /\ SchedIdle
    /\ DeliveryIdle

\* main.py: sentiment_results = sentiment_analyzer.analyze_sentiment(ranked_articles)
AnalyzeSentiment ==
    /\ pc = "start"
    /\ sentiment_results' = analyze_sentiment([i \in 1..Len(ranked_articles) |-> store[ranked_articles[i]]])
    /\ pc' = "analyzed"
    /\ UNCHANGED <<config, ai, text, article_sentiment, procVars, fetchVars, parseVars, mainVars, schedVars, deliveryVars>>

NextSent == AnalyzeSentiment

SpecSent == InitSent /\ [][NextSent]_vars

----------------------------------------------------------------------------
(* NewsFetcher.fetch_news *)

MaxEntries == 3         \* entries over all the feeds of one run

DaySeconds == 86400     \* timedelta(days=1), in seconds
Now == 172800           \* datetime.now(), in seconds
Days == 1               \* main.py: fetch_news(days=1)

\* cutoff_date = datetime.now().replace(tzinfo=None) - timedelta(days=days)
Cutoff == Now - Days * DaySeconds

\* _load_sources: the 'sources' entry of the file, {} when the entry or the
\* file is missing or the file is not JSON. The empty dict is <<>>.
load_sources(file) ==
    IF file.kind # "json" THEN <<>>
    ELSE IF "sources" \in DOMAIN file.content THEN file.content.sources
    ELSE <<>>

\* a loader that makes up a default configuration when the file cannot be read
load_configDefault(file) ==
    IF file.kind # "json"
    THEN [tickers |-> <<>>, keywords |-> <<>>, use_ai |-> FALSE,
          news_sources |-> <<"reuters">>]
    ELSE file.content

\* _load_config: the content of the file, {} when it is missing or not JSON
load_config(file) ==
    IF file.kind # "json" THEN <<>> ELSE file.content

\* self.config.get('news_sources', [])
PreferredSources ==
    IF "news_sources" \in DOMAIN config THEN config.news_sources ELSE <<>>

\* the formats _parse_date tries, in this order
formats ==
    << "%a, %d %b %Y %H:%M:%S %z",
       "%a, %d %b %Y %H:%M:%S %Z",
       "%Y-%m-%dT%H:%M:%S%z",
       "%Y-%m-%dT%H:%M:%SZ",
       "%Y-%m-%d %H:%M:%S",
       "%a %b %d %H:%M:%S %Y" >>

\* strptime yields an aware datetime exactly for the formats that contain %z
FormatAware == <<TRUE, FALSE, TRUE, FALSE, FALSE, FALSE>>

None == [some |-> FALSE, t |-> 0, aware |-> FALSE]
Some(dt) == [some |-> TRUE, t |-> dt.t, aware |-> dt.aware]

\* a datetime that keeps its tzinfo
StripTzNot(dt) == dt

\* dt.replace(tzinfo=None)
StripTz(dt) == [dt EXCEPT !.aware = FALSE]

\* a handler that catches ValueError only
CaughtValueErrorOnly(exc) == exc = "ValueError"

\* except Exception: every exception a library call raises is caught
Caught(exc) == TRUE

\* the loop over formats, from format i on: strptime either yields a datetime
\* or raises ValueError, which moves on to the next format
RECURSIVE TryFormats(_, _)
TryFormats(str, i) ==
    IF i > Len(formats) THEN Returned(None)
    ELSE IF str.strptime[i].ok
         THEN LET dt == [t |-> str.strptime[i].t, aware |-> FormatAware[i]]
              IN  Returned(Some(IF dt.aware THEN StripTz(dt) ELSE dt))
         ELSE TryFormats(str, i + 1)

\* _parse_date: str.feedparser is what feedparser._parse_date and the datetime
\* constructor do with the string (a time tuple, no tuple, or an exception),
\* str.strptime what strptime does with it under each format
parse_date(str) ==
    IF str.s = "" THEN Returned(None)
    ELSE IF str.feedparser.kind = "tuple"
         THEN Returned(Some(StripTz([t |-> str.feedparser.t, aware |-> FALSE])))
         ELSE IF str.feedparser.kind = "raises" /\ ~Caught(str.feedparser.exc)
              THEN Raised(str.feedparser.exc)
              ELSE TryFormats(str, 1)

\* the article dict fetch_news builds for one entry
Article(entry, published, source_id, feed_info) ==
    [title |-> entry.title,
     link |-> entry.link,
     summary |-> "No summary available",
     published |-> entry.published,
     published_parsed |-> published,
     source |-> sources[source_id].name,
     source_id |-> source_id,
     category |-> feed_info.category]

\* a cutoff check that also drops the entry dated exactly at the cutoff
TooOldOrAtCutoff(published) == published.some /\ published.t <= Cutoff

\* if published and published < cutoff_date: continue
TooOld(published) == published.some /\ published.t < Cutoff

\* an append that skips an article whose link is already in the list
AppendArticleUnlessSeen(collected, article) ==
    IF \E i \in 1..Len(collected) : collected[i].link = article.link
    THEN collected
    ELSE Append(collected, article)

\* all_articles.append(article)
AppendArticle(collected, article) == Append(collected, article)

\* the loop over feed.entries: entries older than the cutoff are skipped
RECURSIVE EntryLoop(_, _, _, _)
EntryLoop(entries, source_id, feed_info, collected) ==
    IF entries = <<>> THEN collected
    ELSE LET entry == Head(entries)
             published == parse_date(entry.published).value
         IN  EntryLoop(Tail(entries), source_id, feed_info,
                       IF TooOld(published) THEN collected
                       ELSE AppendArticle(collected,
                                Article(entry, published, source_id, feed_info)))

\* the feeds of one source, in order, each with the id of its source
SourceJobs(source_id) ==
    [i \in 1..Len(sources[source_id].rss_feeds) |->
        [source_id |-> source_id, feed_info |-> sources[source_id].rss_feeds[i]]]

\* the loop over preferred_sources: ids missing from self.sources are skipped
RECURSIVE FeedJobs(_)
FeedJobs(preferred_sources) ==
    IF preferred_sources = <<>> THEN <<>>
    ELSE (IF Head(preferred_sources) \notin DOMAIN sources
          THEN <<>>
          ELSE SourceJobs(Head(preferred_sources)))
             \o FeedJobs(Tail(preferred_sources))

\* the try/except around one feed, over the jobs left; collected is
\* all_articles so far, parsed the urls handed to feedparser.parse so far.
\* A feed_info without 'url' raises KeyError in the try block and again in the
\* handler's log line, which has no handler of its own.
RECURSIVE FeedLoop(_, _, _)
FeedLoop(jobs, collected, parsed) ==
    IF jobs = <<>>
    THEN [outcome |-> Returned(collected), all_articles |-> collected, retrieved |-> parsed]
    ELSE LET job == Head(jobs)
         IN  IF "url" \notin DOMAIN job.feed_info
             THEN [outcome |-> Raised("KeyError"),
                   all_articles |-> collected, retrieved |-> parsed]
             ELSE IF ~feeds[job.feed_info.url].ok
                  THEN FeedLoop(Tail(jobs), collected, Append(parsed, job.feed_info.url))
                  ELSE FeedLoop(Tail(jobs),
                                EntryLoop(feeds[job.feed_info.url].entries,
                                          job.source_id, job.feed_info, collected),
                                Append(parsed, job.feed_info.url))

\* place x in the newest-first list r behind every element that is not older
InsertByDate(x, r) ==
    LET p == Cardinality({j \in 1..Len(r) : r[j].published_parsed.t >= x.published_parsed.t})
    IN  SubSeq(r, 1, p) \o <<x>> \o SubSeq(r, p + 1, Len(r))

RECURSIVE SortedByDate(_)
SortedByDate(l) ==
    IF l = <<>> THEN <<>>
    ELSE InsertByDate(l[Len(l)], SortedByDate(SubSeq(l, 1, Len(l) - 1)))

\* all_articles.sort(key=lambda x: x.get('published_parsed', datetime.min), reverse=True)
\* the key 'published_parsed' is always present, so the key of an undated
\* article is None and any comparison with it raises TypeError
SortArticles(l) ==
    IF Len(l) >= 2 /\ \E i \in 1..Len(l) : ~l[i].published_parsed.some
    THEN Raised("TypeError")
    ELSE Returned(SortedByDate(l))

\* one call of fetch_news: its outcome, the list it collected and the urls it
\* handed to feedparser.parse
FetchRun ==
    IF DOMAIN sources = {} \/ DOMAIN config = {}
    THEN [outcome |-> Returned(<<>>), all_articles |-> <<>>, retrieved |-> <<>>]
    ELSE IF PreferredSources = <<>>
         THEN [outcome |-> Returned(<<>>), all_articles |-> <<>>, retrieved |-> <<>>]
         ELSE FeedLoop(FeedJobs(PreferredSources), <<>>, <<>>)

fetch_news ==
    IF FetchRun.outcome.status = "raised" THEN FetchRun.outcome
    ELSE SortArticles(FetchRun.outcome.value)

----------------------------------------------------------------------------
(* Inputs of the fetcher *)

Urls == {"u1", "u2"}

NoFormat == [i \in 1..Len(formats) |-> [ok |-> FALSE, t |-> 0]]

NoDate(s) ==
    [s |-> s, feedparser |-> [kind |-> "none", t |-> 0, exc |-> ""], strptime |-> NoFormat]

DateAt(t) ==
    [s |-> "date", feedparser |-> [kind |-> "tuple", t |-> t, exc |-> ""],
     strptime |-> NoFormat]

DateStrings ==
    {NoDate(""), NoDate("not a date")}
        \cup {DateAt(t) : t \in {Cutoff - 1, Cutoff, Cutoff + 1}}

\* what retrieving url yields: an exception, or a feed of at most b entries;
\* consecutive entries of a feed carry the same link, as do entries of both feeds
FeedOutcomes(url, b) ==
    {[ok |-> FALSE, entries |-> <<>>]} \cup
    UNION {{[ok |-> TRUE,
             entries |-> [i \in 1..k |->
                            [title |-> <<url, i>>,
                             link |-> <<"link", (i + 1) \div 2>>,
                             published |-> d[i]]]] :
                d \in SeqsOfLen(DateStrings, k)} :
           k \in 0..b}

FeedStates(b) ==
    UNION {{[u \in Urls |-> IF u = "u1" THEN o1 ELSE o2] :
                o2 \in FeedOutcomes("u2", b - Len(o1.entries))} :
           o1 \in FeedOutcomes("u1", b)}

Feed1 == [url |-> "u1", category |-> "Markets"]
Feed2 == [url |-> "u2", category |-> "General"]
FeedNoUrl == [category |-> "General"]

Reuters(fs) == [name |-> "Reuters", rss_feeds |-> fs]
Cnbc(fs) == [name |-> "CNBC", rss_feeds |-> fs]

Missing == [kind |-> "missing"]
Invalid == [kind |-> "invalid"]
Json(content) == [kind |-> "json", content |-> content]

SourcesOne == [id \in {"reuters"} |-> Reuters(<<Feed1, Feed2>>)]
SourcesTwo ==
    [id \in {"reuters", "cnbc"} |->
        IF id = "reuters" THEN Reuters(<<Feed1>>) ELSE Cnbc(<<Feed2>>)]
SourcesNoUrl ==
    [id \in {"reuters", "cnbc"} |->
        IF id = "reuters" THEN Reuters(<<Feed1, FeedNoUrl>>) ELSE Cnbc(<<Feed2>>)]

Preferring(news_sources) == Json([NoConfig EXCEPT !.news_sources = news_sources])

\* the sources file and the configuration file tried: <<sources_file, config_file>>
FetchConfigs ==
    { <<Json([sources |-> <<>>]), Preferring(<<"reuters">>)>>,
      <<Json([version |-> "1"]), Preferring(<<"reuters">>)>>,
      <<Missing, Preferring(<<"reuters">>)>>,
      <<Invalid, Preferring(<<"reuters">>)>>,
      <<Json([sources |-> SourcesOne]), Missing>>,
      <<Json([sources |-> SourcesOne]), Invalid>>,
      <<Json([sources |-> SourcesOne]), Json(<<>>)>>,
      <<Json([sources |-> SourcesOne]), Json([tickers |-> <<>>])>>,
      <<Json([sources |-> SourcesOne]), Preferring(<<>>)>>,
      <<Json([sources |-> SourcesOne]), Preferring(<<"reuters">>)>>,
      <<Json([sources |-> SourcesTwo]), Preferring(<<"missing", "cnbc", "reuters">>)>>,
      <<Json([sources |-> SourcesNoUrl]), Preferring(<<"reuters", "cnbc">>)>> }

InitFetch ==
    /\ pc = "start"
    /\ \E c \in FetchConfigs :
          /\ sources_file = c[1]
          /\ config_file = c[2]
    /\ sources = load_sources(sources_file)
    /\ config = load_config(config_file)
    /\ feeds \in FeedStates(MaxEntries)
    /\ fetch_result = <<>>
    /\ all_articles = <<>>
    /\ retrieved = <<>>
    /\ ParseIdle
    /\ MainIdle
    /\ ProcIdle
    /\ SentIdle
    /\ SchedIdle
    /\ DeliveryIdle

\* main.py: articles = news_fetcher.fetch_news(days=1)
FetchNews ==
    /\ pc = "start"
    /\ fetch_result' = fetch_news
    /\ all_articles' = FetchRun.all_articles
    /\ retrieved' = FetchRun.retrieved
    /\ pc' = "fetched"
    /\ UNCHANGED <<config, sources_file, config_file, sources, feeds,
                   parseVars, mainVars, procVars, sentVars, schedVars, deliveryVars>>

NextFetch == FetchNews

SpecFetch == InitFetch /\ [][NextFetch]_vars

----------------------------------------------------------------------------
(* Inputs of _parse_date: what the library calls do with a string *)

FeedparserOutcomes ==
    {[kind |-> "tuple", t |-> 0, exc |-> ""], [kind |-> "none", t |-> 0, exc |-> ""]}
        \cup {[kind |-> "raises", t |-> 0, exc |-> e] : e \in {"ValueError", "AttributeError"}}

\* format i, when it accepts the string, yields the time i
StrptimeOutcomes ==
    {[i \in 1..Len(formats) |-> [ok |-> i \in ok, t |-> i]] :
        ok \in SUBSET (1..Len(formats))}

ParseInputs ==
    {[s |-> s, feedparser |-> f, strptime |-> p] :
        s \in {"", "text"}, f \in FeedparserOutcomes, p \in StrptimeOutcomes}

InitParse ==
    /\ pc = "start"
    /\ date_str \in ParseInputs
    /\ parse_result = <<>>
    /\ config = NoConfig
    /\ FetchIdle
    /\ MainIdle
    /\ ProcIdle
    /\ SentIdle
    /\ SchedIdle
    /\ DeliveryIdle

\* one call of _parse_date(date_str)
ParseDate ==
    /\ pc = "start"
    /\ parse_result' = parse_date(date_str)
    /\ pc' = "parsed"
    /\ UNCHANGED <<config, date_str, fetchVars, procVars, sentVars, mainVars, schedVars, deliveryVars>>

NextParse == ParseDate

SpecParse == InitParse /\ [][NextParse]_vars

----------------------------------------------------------------------------
(* generate_news_summary (src/main.py): one run, stage by stage *)

MaxMainArticles == 2    \* articles fetch_news hands to one run
MaxMainChars == 1       \* characters of all their titles and summaries

\* a run that never takes the early return
NothingToSummarizeNever(l) == FALSE

\* if not articles: return / if not ranked_articles: return
NothingToSummarize(l) == l = <<>>

\* the export calls made for an export_format
ExportCalls(format) ==
    (IF format \in {"markdown", "both"} THEN <<"export_to_markdown">> ELSE <<>>)
        \o (IF format \in {"pdf", "both"} THEN <<"export_to_pdf">> ELSE <<>>)

ExportFormats == {"none", "markdown", "pdf", "both"}

MainConfigs == { << <<>>, <<>> >>, << <<(<<"a">>)>>, <<>> >> }

\* what fetch_news hands to the run: a list of articles, or the exception of
\* its sort
FetchOutcomes ==
    {Raised("TypeError")}
        \cup {Returned(l) : l \in ArticleLists(MaxMainArticles, MaxMainChars)}

InitMain ==
    /\ pc = "start"
    /\ \E c \in MainConfigs :
          config = [NoConfig EXCEPT !.tickers = c[1], !.keywords = c[2]]
    /\ use_all_articles \in BOOLEAN
    /\ export_format \in ExportFormats
    /\ summary_articles = <<>>
    /\ calls = <<>>
    /\ fetch_result \in FetchOutcomes
    /\ store = <<>>
    /\ articles = <<>>
    /\ filtered_articles = <<>>
    /\ ranked_articles = <<>>
    /\ reranked_articles = <<>>
    /\ ranked_is_argument = FALSE
    /\ sources_file = <<>>
    /\ config_file = <<>>
    /\ sources = <<>>
    /\ feeds = <<>>
    /\ all_articles = <<>>
    /\ retrieved = <<>>
    /\ ParseIdle
    /\ SentIdle
    /\ SchedIdle
    /\ DeliveryIdle

\* articles = news_fetcher.fetch_news(days=1); if not articles: return
MainFetch ==
    /\ pc = "start"
    /\ calls' = Append(calls, "fetch_news")
    /\ IF fetch_result.status = "raised"
       THEN /\ pc' = "raised"
            /\ UNCHANGED <<store, articles, schedVars, deliveryVars>>
       ELSE /\ store' = fetch_result.value
            /\ articles' = [i \in 1..Len(fetch_result.value) |-> i]
            /\ pc' = IF NothingToSummarize(articles') THEN "done" ELSE "fetched"
    /\ UNCHANGED <<config, use_all_articles, filtered_articles, ranked_articles,
                   reranked_articles, ranked_is_argument, export_format, summary_articles,
                   fetchVars, parseVars,
                   sentVars, schedVars, deliveryVars>>

\* filter_articles, rank_articles; if not ranked_articles: return
MainProcess ==
    /\ pc = "fetched"
    /\ calls' = calls \o <<"filter_articles", "rank_articles">>
    /\ filtered_articles' = filter_articles(articles, store, ~use_all_articles)
    /\ store' = Scored(filtered_articles', store)
    /\ ranked_articles' = rank_articles(filtered_articles', store)
    /\ ranked_is_argument' = ReturnsArgument(filtered_articles')
    /\ pc' = IF NothingToSummarize(ranked_articles') THEN "done" ELSE "ranked"
    /\ UNCHANGED <<config, use_all_articles, articles, reranked_articles, export_format,
                   summary_articles, fetchVars, parseVars, sentVars, schedVars, deliveryVars>>

\* one downstream stage: it is invoked, and returns or raises; what it returns
\* decides nothing in generate_news_summary
Stage(from, name, to) ==
    /\ pc = from
    /\ calls' = Append(calls, name)
    /\ \E ok \in BOOLEAN : pc' = IF ok THEN to ELSE "raised"
    /\ UNCHANGED <<config, export_format, summary_articles, procVars, fetchVars,
                   parseVars, sentVars, schedVars, deliveryVars>>

\* sentiment_results = sentiment_analyzer.analyze_sentiment(ranked_articles)
MainSentiment == Stage("ranked", "analyze_sentiment", "analyzed")

\* stock_prices = stock_price_fetcher.fetch_stock_prices()
MainStockPrices == Stage("analyzed", "fetch_stock_prices", "priced")

TopArticles == 20       \* main.py: ranked_articles[:20]

\* a slice that takes the last TopArticles articles
LastArticles(l) ==
    SubSeq(l, IF Len(l) < TopArticles THEN 1 ELSE Len(l) - TopArticles + 1, Len(l))

\* ranked_articles[:20]
FirstArticles(l) == SubSeq(l, 1, IF Len(l) < TopArticles THEN Len(l) ELSE TopArticles)

\* summary = summarizer.generate_summary(ranked_articles[:20], ...)
MainSummarize ==
    /\ pc = "priced"
    /\ calls' = Append(calls, "generate_summary")
    /\ summary_articles' = FirstArticles(ranked_articles)
    /\ \E ok \in BOOLEAN : pc' = IF ok THEN "summarized" ELSE "raised"
    /\ UNCHANGED <<config, export_format, procVars, fetchVars, parseVars, sentVars, schedVars, deliveryVars>>

\* if export_format: export_to_markdown and/or export_to_pdf
MainExport ==
    /\ pc = "summarized"
    /\ \E n \in 0..Len(ExportCalls(export_format)) :
          /\ n > 0 \/ ExportCalls(export_format) = <<>>
          /\ calls' = calls \o SubSeq(ExportCalls(export_format), 1, n)
          /\ \E ok \in BOOLEAN :
                /\ (n < Len(ExportCalls(export_format))) => ~ok
                /\ (n = 0) => ok
                /\ pc' = IF ok THEN "exported" ELSE "raised"
    /\ UNCHANGED <<config, export_format, summary_articles, procVars, fetchVars,
                   parseVars, sentVars, schedVars, deliveryVars>>

\* success = delivery_manager.deliver_summary(summary, title)
MainDeliver == Stage("exported", "deliver_summary", "done")

NextMain ==
    \/ MainFetch
    \/ MainProcess
    \/ MainSentiment
    \/ MainStockPrices
    \/ MainSummarize
    \/ MainExport
    \/ MainDeliver

SpecMain == InitMain /\ [][NextMain]_vars

----------------------------------------------------------------------------
(* Runs of generate_news_summary over long article lists *)

MaxLongArticles == 22   \* articles fetch_news hands to one long run

\* n articles, the first k of them without the ticker "a" in the title
LongList(n, k) ==
    [i \in 1..n |-> [title |-> IF i > k THEN <<"a">> ELSE <<"^">>, summary |-> <<>>]]

InitMainLong ==
    /\ pc = "start"
    /\ config = [NoConfig EXCEPT !.tickers = <<(<<"a">>)>>]
    /\ use_all_articles \in BOOLEAN
    /\ export_format \in ExportFormats
    /\ summary_articles = <<>>
    /\ calls = <<>>
    /\ \E n \in 0..MaxLongArticles : \E k \in 0..n :
          fetch_result = Returned(LongList(n, k))
    /\ store = <<>>
    /\ articles = <<>>
    /\ filtered_articles = <<>>
    /\ ranked_articles = <<>>
    /\ reranked_articles = <<>>
    /\ ranked_is_argument = FALSE
    /\ sources_file = <<>>
    /\ config_file = <<>>
    /\ sources = <<>>
    /\ feeds = <<>>
    /\ all_articles = <<>>
    /\ retrieved = <<>>
    /\ ParseIdle
    /\ SentIdle
    /\ SchedIdle
    /\ DeliveryIdle

SpecMainLong == InitMainLong /\ [][NextMain]_vars

----------------------------------------------------------------------------
(* schedule_daily_summary (src/main.py): the daily job and the loop that runs
   it. Time is counted in sleeps of the loop; a day has DayChecks of them. *)

DayChecks == 3          \* sleeps of the loop in one day
MaxRunTime == 4         \* longest run of the job, in sleeps of the loop

DefaultTime == 1        \* schedule_time = "07:00", as a time of day

TimeZones == {"America/New_York", "Mars/Phobos"}

\* pytz.timezone raises UnknownTimeZoneError for a name it does not know
KnownTimeZone(tz) == tz = "America/New_York"

\* every().day.at(t) raises ScheduleValueError for a malformed time
ValidTime(t) == t \in 0..(DayChecks - 1)

\* main.load_config: the content of the file, {} when it is missing or not JSON
main_load_config(file) == IF file.kind # "json" THEN <<>> ELSE file.content

\* schedule_time and timezone_str of schedule_daily_summary
ScheduleSettings(cfg) ==
    IF DOMAIN cfg = {} \/ "schedule" \notin DOMAIN cfg
    THEN [time |-> DefaultTime, timezone |-> "America/New_York"]
    ELSE [time |-> IF "time" \in DOMAIN cfg.schedule
                   THEN cfg.schedule.time ELSE DefaultTime,
          timezone |-> IF "timezone" \in DOMAIN cfg.schedule
                       THEN cfg.schedule.timezone ELSE "America/New_York"]

\* time from the time of day c to the next time of day at, a whole day when
\* they coincide
UntilNext(c, at) ==
    LET r == (at - c + DayChecks) % DayChecks
    IN  IF r = 0 THEN DayChecks ELSE r

\* a job that stays due after it has run
NextRunStale(c, at, due) == due

\* Job.run: after job_func returns, next_run is the next occurrence of at
NextRun(c, at, due) == UntilNext(c, at)

\* a handler that logs the exception of a run and goes on with the loop
AfterRaiseContinue == "sleep"

\* except Exception as e: logger.error(...), the end of schedule_daily_summary
AfterRaise == "returned"

\* the scheduled times passed when d sleeps pass from the time of day c
Crossings(c, d) == Cardinality({k \in 1..d : (c + k) % DayChecks = at_time})

SchedFiles ==
    {Missing, Invalid, Json(<<>>), Json([tickers |-> <<>>]), Json([schedule |-> <<>>])}
        \cup {Json([schedule |-> [time |-> t, timezone |-> tz]]) :
                 t \in 0..DayChecks, tz \in TimeZones}

InitSched ==
    /\ pc = "start"
    /\ sched_file \in SchedFiles
    /\ clock \in 0..(DayChecks - 1)
    /\ at_time = 0
    /\ next_run = 0
    /\ active_runs = 0
    /\ unserved_ticks = 0
    /\ run_raised = FALSE
    /\ config = NoConfig
    /\ ProcIdle
    /\ FetchIdle
    /\ ParseIdle
    /\ MainIdle
    /\ SentIdle
    /\ DeliveryIdle

\* lines 125-142: read the settings and schedule the job; an unknown timezone
\* or a malformed time raises, which the handler logs
ScheduleJob ==
    /\ pc = "start"
    /\ LET settings == ScheduleSettings(main_load_config(sched_file))
       IN  IF KnownTimeZone(settings.timezone) /\ ValidTime(settings.time)
           THEN /\ at_time' = settings.time
                /\ next_run' = UntilNext(clock, settings.time)
                /\ pc' = "loop"
           ELSE /\ pc' = "returned"
                /\ UNCHANGED <<at_time, next_run, deliveryVars>>
    /\ UNCHANGED <<config, sched_file, clock, active_runs, unserved_ticks, run_raised,
                   procVars, fetchVars, parseVars, mainVars, sentVars, deliveryVars>>

\* schedule.run_pending(): the job is run when it is due
RunPending ==
    /\ pc = "loop"
    /\ IF next_run <= 0
       THEN /\ active_runs' = active_runs + 1
            /\ unserved_ticks' = 0
            /\ pc' = "in_job"
       ELSE /\ pc' = "sleep"
            /\ UNCHANGED <<active_runs, unserved_ticks, deliveryVars>>
    /\ UNCHANGED <<config, sched_file, at_time, clock, next_run, run_raised,
                   procVars, fetchVars, parseVars, mainVars, sentVars, deliveryVars>>

\* generate_news_summary returns after d sleeps' time; the job is rescheduled
JobReturns ==
    /\ pc = "in_job"
    /\ \E d \in 0..MaxRunTime :
          /\ clock' = (clock + d) % DayChecks
          /\ unserved_ticks' = unserved_ticks + Crossings(clock, d)
          /\ next_run' = NextRun(clock', at_time, next_run - d)
    /\ active_runs' = active_runs - 1
    /\ pc' = "sleep"
    /\ UNCHANGED <<config, sched_file, at_time, run_raised,
                   procVars, fetchVars, parseVars, mainVars, sentVars, deliveryVars>>

\* generate_news_summary raises after d sleeps' time: run_pending lets the
\* exception through to the handler of schedule_daily_summary
JobRaises ==
    /\ pc = "in_job"
    /\ \E d \in 0..MaxRunTime :
          /\ clock' = (clock + d) % DayChecks
          /\ unserved_ticks' = unserved_ticks + Crossings(clock, d)
          /\ next_run' = next_run - d
    /\ active_runs' = active_runs - 1
    /\ run_raised' = TRUE
    /\ pc' = AfterRaise
    /\ UNCHANGED <<config, sched_file, at_time,
                   procVars, fetchVars, parseVars, mainVars, sentVars, deliveryVars>>

\* time.sleep(60)
Sleep ==
    /\ pc = "sleep"
    /\ clock' = (clock + 1) % DayChecks
    /\ unserved_ticks' = unserved_ticks + Crossings(clock, 1)
    /\ next_run' = next_run - 1
    /\ pc' = "loop"
    /\ UNCHANGED <<config, sched_file, at_time, active_runs, run_raised,
                   procVars, fetchVars, parseVars, mainVars, sentVars, deliveryVars>>

NextSched == ScheduleJob \/ RunPending \/ JobReturns \/ JobRaises \/ Sleep

SpecSched == InitSched /\ [][NextSched]_vars

\* the sleep ends and a run of the job returns or raises
SpecSchedLive == SpecSched /\ WF_vars(NextSched)

----------------------------------------------------------------------------
(* DeliveryManager.deliver_summary (src/src/delivery.py) *)

\* the delivery methods, in the order deliver_summary goes through them
Methods == <<"ntfy", "email", "telegram", "discord">>

\* DeliveryManager._load_config: the content of the file, {} when it is
\* missing or not JSON
delivery_load_config(file) == IF file.kind # "json" THEN <<>> ELSE file.content

\* delivery_config.get(method, {}).get('enabled', False)
Enabled(delivery_config, method) ==
    IF method \in DOMAIN delivery_config
    THEN (IF "enabled" \in DOMAIN delivery_config[method]
          THEN delivery_config[method].enabled
          ELSE FALSE)
    ELSE FALSE

\* a method is skipped once an earlier one has succeeded
ShouldTryUntilSuccess(method) == Enabled(config.delivery, method) /\ ~success

\* if delivery_config.get(method, {}).get('enabled', False):
ShouldTry(method) == Enabled(config.delivery, method)

\* success follows the method called last
LastOutcome(before, ok) == ok

\* if self._deliver_via_...(summary, title): success = True
Accumulate(before, ok) == before \/ ok

\* every _deliver_via_ method returns True when it delivered and False when it
\* failed or caught an exception
MethodReturns(outcome) == outcome = "ok"

MethodOutcomes == {"ok", "failed", "exception"}

\* how a method appears in the delivery section
MethodEntries == {"absent", "no_flag", "off", "on"}

DeliverySection(entry) ==
    [m \in {n \in Range(Methods) : entry[n] # "absent"} |->
        IF entry[m] = "no_flag" THEN [topic |-> "news"]
        ELSE [enabled |-> entry[m] = "on"]]

DeliveryFiles ==
    {Missing, Invalid, Json(<<>>), Json([tickers |-> <<>>])}
        \cup {Json([delivery |-> DeliverySection(entry)]) :
                 entry \in [Range(Methods) -> MethodEntries]}

InitDeliver ==
    /\ pc = "start"
    /\ delivery_file \in DeliveryFiles
    /\ config = delivery_load_config(delivery_file)
    /\ method_outcome \in [Range(Methods) -> MethodOutcomes]
    /\ attempted = <<>>
    /\ success = FALSE
    /\ deliver_result = <<>>
    /\ EmailIdle
    /\ DiscordIdle
    /\ ProcIdle
    /\ FetchIdle
    /\ ParseIdle
    /\ MainIdle
    /\ SchedIdle
    /\ SentIdle

\* lines 48-53: no configuration or no 'delivery' section returns False
DeliverCheck ==
    /\ pc = "start"
    /\ IF DOMAIN config = {} \/ "delivery" \notin DOMAIN config
       THEN /\ deliver_result' = Returned(FALSE)
            /\ pc' = "returned"
       ELSE /\ pc' = Methods[1]
            /\ UNCHANGED deliver_result
    /\ UNCHANGED <<config, delivery_file, method_outcome, attempted, success,
                   emailVars, discordVars, procVars, fetchVars, parseVars, mainVars,
                   schedVars, sentVars>>

\* lines 55-69: the i-th method is called if it is enabled
TryMethod(i) ==
    /\ pc = Methods[i]
    /\ IF ShouldTry(Methods[i])
       THEN /\ attempted' = Append(attempted, Methods[i])
            /\ success' = Accumulate(success, MethodReturns(method_outcome[Methods[i]]))
       ELSE UNCHANGED <<attempted, success>>
    /\ pc' = IF i < Len(Methods) THEN Methods[i + 1] ELSE "return"
    /\ UNCHANGED <<config, delivery_file, method_outcome, deliver_result,
                   emailVars, discordVars, procVars, fetchVars, parseVars, mainVars,
                   schedVars, sentVars>>

TryNtfy == TryMethod(1)

TryEmail == TryMethod(2)

TryTelegram == TryMethod(3)

TryDiscord == TryMethod(4)

\* return success
DeliverReturn ==
    /\ pc = "return"
    /\ deliver_result' = Returned(success)
    /\ pc' = "returned"
    /\ UNCHANGED <<config, delivery_file, method_outcome, attempted, success,
                   emailVars, discordVars, procVars, fetchVars, parseVars, mainVars,
                   schedVars, sentVars>>

NextDeliver ==
    \/ DeliverCheck
    \/ TryNtfy
    \/ TryEmail
    \/ TryTelegram
    \/ TryDiscord
    \/ DeliverReturn

SpecDeliver == InitDeliver /\ [][NextDeliver]_vars

----------------------------------------------------------------------------
(* DeliveryManager._deliver_via_email (src/src/delivery.py) *)

max_retries == 2        \* delivery.py: max_retries = 2

\* the classes an exception of the attempt is an instance of
Ancestors(exc) ==
    IF exc \in {"SMTPAuthenticationError", "SMTPSenderRefused", "SMTPRecipientsRefused",
                "SMTPDataError", "SMTPServerDisconnected"}
    THEN {exc, "SMTPException", "Exception"}
    ELSE IF exc \in {"TimeoutError", "ConnectionRefusedError", "SMTPException"}
         THEN {exc, "Exception"}
         ELSE {"Exception"}

\* handlers that also retry after any other SMTP error
HandlersRetrySmtp ==
    << [classes |-> {"SMTPAuthenticationError"}, retry |-> FALSE],
       [classes |-> {"SMTPSenderRefused"}, retry |-> FALSE],
       [classes |-> {"SMTPRecipientsRefused"}, retry |-> FALSE],
       [classes |-> {"SMTPDataError"}, retry |-> FALSE],
       [classes |-> {"TimeoutError", "SMTPServerDisconnected", "ConnectionRefusedError",
                     "SMTPException"},
        retry |-> TRUE],
       [classes |-> {"Exception"}, retry |-> FALSE] >>

\* the except clauses of the attempt, in order (lines 226-259)
Handlers ==
    << [classes |-> {"SMTPAuthenticationError"}, retry |-> FALSE],
       [classes |-> {"SMTPSenderRefused"}, retry |-> FALSE],
       [classes |-> {"SMTPRecipientsRefused"}, retry |-> FALSE],
       [classes |-> {"SMTPDataError"}, retry |-> FALSE],
       [classes |-> {"TimeoutError", "SMTPServerDisconnected", "ConnectionRefusedError"},
        retry |-> TRUE],
       [classes |-> {"SMTPException"}, retry |-> FALSE],
       [classes |-> {"Exception"}, retry |-> FALSE] >>

\* the first except clause that matches the exception
Handler(exc) ==
    Handlers[CHOOSE i \in 1..Len(Handlers) :
                /\ Handlers[i].classes \cap Ancestors(exc) # {}
                /\ \A j \in 1..(i - 1) : Handlers[j].classes \cap Ancestors(exc) = {}]

\* a retry that is granted whatever retry_count is
MayRetryAlways(count) == TRUE

\* if retry_count < max_retries:
MayRetry(count) == count < max_retries

\* email_config.get(key), None when the key is missing
Get(dict, key) == IF key \in DOMAIN dict THEN dict[key] ELSE ""

\* the calls of one attempt that can raise: SMTP_SSL for port 465, else SMTP
\* with STARTTLS; "quit" is the QUIT the with statement sends on return
AttemptSteps(smtp_port) ==
    IF smtp_port = "465"
    THEN <<"connect", "ehlo", "login", "send_message", "quit">>
    ELSE <<"connect", "ehlo", "starttls", "ehlo_tls", "login", "send_message", "quit">>

ExceptionClasses ==
    {"SMTPAuthenticationError", "SMTPSenderRefused", "SMTPRecipientsRefused",
     "SMTPDataError", "TimeoutError", "SMTPServerDisconnected", "ConnectionRefusedError",
     "SMTPException", "OSError"}

\* how one attempt can end: every call completes, or one of them raises; the
\* QUIT of the with statement raises at most SMTPResponseException
AttemptOutcomes(smtp_port) ==
    {[raised_at |-> "none", exc |-> "none"], [raised_at |-> "quit", exc |-> "SMTPException"]}
        \cup {[raised_at |-> st, exc |-> e] :
                 st \in Range(AttemptSteps(smtp_port)) \ {"quit"}, e \in ExceptionClasses}

ReturnedFrom(v, where) == [status |-> "returned", value |-> v, at |-> where]

EmailSections ==
    {[sender_email |-> "s"],
     [address |-> "a"],
     [address |-> "a", password |-> "p"],
     [address |-> "a", password |-> "p", smtp_port |-> "465"]}

InitEmail ==
    /\ pc = "start"
    /\ config \in {[delivery |-> <<>>]}
                     \cup {[delivery |-> [email |-> e]] : e \in EmailSections}
    /\ EmailIdle
    /\ DeliverIdle
    /\ DiscordIdle
    /\ ProcIdle
    /\ FetchIdle
    /\ ParseIdle
    /\ MainIdle
    /\ SchedIdle
    /\ SentIdle

\* lines 127-183: without 'email' section (KeyError, caught by the outer
\* handler), address or password the method returns False
EmailSetup ==
    /\ pc = "start"
    /\ IF "email" \notin DOMAIN config.delivery
       THEN /\ email_result' = ReturnedFrom(FALSE, "outer handler")
            /\ pc' = "returned"
            /\ UNCHANGED <<email_config, retry_count>>
       ELSE /\ email_config' = config.delivery.email
            /\ IF Get(email_config', "address") = "" \/ Get(email_config', "password") = ""
               THEN /\ email_result' = ReturnedFrom(FALSE, "not configured")
                    /\ pc' = "returned"
                    /\ UNCHANGED retry_count
               ELSE /\ retry_count' = 0
                    /\ pc' = "loop"
                    /\ UNCHANGED email_result
    /\ UNCHANGED <<config, attempts, deliverVars, discordVars, procVars, fetchVars,
                   parseVars, mainVars, schedVars, sentVars>>

\* one pass of while retry_count <= max_retries (lines 185-259), or the
\* return True after the loop (line 261)
EmailLoop ==
    /\ pc = "loop"
    /\ IF ~(retry_count <= max_retries)
       THEN /\ email_result' = ReturnedFrom(TRUE, "after loop")
            /\ pc' = "returned"
            /\ UNCHANGED <<attempts, retry_count>>
       ELSE \E outcome \in AttemptOutcomes(IF "smtp_port" \in DOMAIN email_config
                                           THEN email_config.smtp_port ELSE "587") :
               /\ attempts' = Append(attempts, outcome)
               /\ IF outcome.raised_at = "none"
                  THEN /\ email_result' = ReturnedFrom(TRUE, "sent")
                       /\ pc' = "returned"
                       /\ UNCHANGED retry_count
                  ELSE IF Handler(outcome.exc).retry /\ MayRetry(retry_count)
                       THEN /\ retry_count' = retry_count + 1
                            /\ pc' = "loop"
                            /\ UNCHANGED email_result
                       ELSE /\ email_result' = ReturnedFrom(FALSE, "handler")
                            /\ pc' = "returned"
                            /\ UNCHANGED retry_count
    /\ UNCHANGED <<config, email_config, deliverVars, discordVars, procVars, fetchVars,
                   parseVars, mainVars, schedVars, sentVars>>

NextEmail == EmailSetup \/ EmailLoop

SpecEmail == InitEmail /\ [][NextEmail]_vars

\* every library call of an attempt returns or raises
SpecEmailLive == SpecEmail /\ WF_vars(NextEmail)

----------------------------------------------------------------------------
(* DeliveryManager._deliver_via_discord (src/src/delivery.py). A message is
   the slice [lo, hi) of the summary it carries, with or without the title
   header before it. *)

MaxSlack == 2           \* lengths tried lie this close to a boundary

MessageLimit == 2000    \* max_content_length = 2000 - len(first_message)
chunk_size == 1950      \* chunk_size = 1950
HeaderExtra == 6        \* len("**" + "**\n\n"), first_message without the title

\* a Python slice index i on a sequence of n items
SliceIndex(n, i) ==
    IF i < 0 THEN (IF n + i < 0 THEN 0 ELSE n + i)
    ELSE IF i > n THEN n ELSE i

\* seq[a:b] of a sequence of n items, as the positions [lo, hi) it takes
Slice(n, a, b) ==
    LET lo == SliceIndex(n, a)
        hi == SliceIndex(n, b)
    IN  [lo |-> lo, hi |-> IF hi < lo THEN lo ELSE hi]

\* len(first_message)
FirstMessageLen == title_len + HeaderExtra

max_content_length == MessageLimit - FirstMessageLen

\* the part of the summary the first message carries
FirstPart ==
    IF summary_len <= max_content_length
    THEN [lo |-> 0, hi |-> summary_len]
    ELSE Slice(summary_len, 0, max_content_length)

\* remaining = summary[max_content_length:], as positions of the summary
Remaining == Slice(summary_len, max_content_length, summary_len)

\* the values of i in range(0, len(remaining), chunk_size)
ChunkStarts ==
    IF summary_len <= max_content_length THEN <<>>
    ELSE [k \in 1..((Remaining.hi - Remaining.lo + chunk_size - 1) \div chunk_size) |->
             (k - 1) * chunk_size]

\* chunk = remaining[i:i+chunk_size], as positions of the summary
Chunk(i) ==
    LET c == Slice(Remaining.hi - Remaining.lo, i, i + chunk_size)
    IN  [lo |-> Remaining.lo + c.lo, hi |-> Remaining.lo + c.hi]

Message(header, part, status) ==
    [header |-> header, lo |-> part.lo, hi |-> part.hi, status |-> status]

\* the response to a post: status 204, another status, or an exception of
\* requests.post
Responses == {"204", "400", "exception"}

TitleLens ==
    (0..MaxSlack) \cup
    {l \in (MessageLimit - HeaderExtra - MaxSlack)..(MessageLimit - HeaderExtra + MaxSlack) :
        l >= 0}

\* summary lengths around the points where the number of messages changes
SummaryLens(t) ==
    LET m == MessageLimit - HeaderExtra - t
        near == {0, m, 0 - m, m + chunk_size, m + chunk_size + chunk_size}
    IN  {l \in UNION {(b - MaxSlack)..(b + MaxSlack) : b \in near} : l >= 0}

InitDiscord ==
    /\ pc = "start"
    /\ config \in {[delivery |-> <<>>],
                   [delivery |-> [discord |-> [enabled |-> TRUE]]],
                   [delivery |-> [discord |-> [webhook_url |-> "w"]]]}
    /\ title_len \in TitleLens
    /\ summary_len \in SummaryLens(title_len)
    /\ posted = <<>>
    /\ discord_result = <<>>
    /\ DeliverIdle
    /\ EmailIdle
    /\ ProcIdle
    /\ FetchIdle
    /\ ParseIdle
    /\ MainIdle
    /\ SchedIdle
    /\ SentIdle

\* lines 324-361: without 'discord' section (KeyError, caught by the outer
\* handler) or webhook_url the method returns False; else the first message
\* is posted
DiscordFirst ==
    /\ pc = "start"
    /\ IF "discord" \notin DOMAIN config.delivery
       THEN /\ discord_result' = Returned(FALSE)
            /\ pc' = "returned"
            /\ UNCHANGED posted
       ELSE IF Get(config.delivery.discord, "webhook_url") = ""
            THEN /\ discord_result' = Returned(FALSE)
                 /\ pc' = "returned"
                 /\ UNCHANGED posted
            ELSE \E response \in Responses :
                    IF response = "exception"
                    THEN /\ discord_result' = Returned(FALSE)
                         /\ pc' = "returned"
                         /\ UNCHANGED posted
                    ELSE /\ posted' = <<Message(TRUE, FirstPart, response)>>
                         /\ IF response # "204"
                            THEN /\ discord_result' = Returned(FALSE)
                                 /\ pc' = "returned"
                            ELSE /\ pc' = "chunks"
                                 /\ UNCHANGED discord_result
    /\ UNCHANGED <<config, title_len, summary_len, deliverVars, emailVars, procVars,
                   fetchVars, parseVars, mainVars, schedVars, sentVars>>

\* lines 364-381: the next chunk is posted, or, with no chunk left, the
\* method returns True
DiscordNext ==
    /\ pc = "chunks"
    /\ IF Len(posted) > Len(ChunkStarts)
       THEN /\ discord_result' = Returned(TRUE)
            /\ pc' = "returned"
            /\ UNCHANGED posted
       ELSE \E response \in Responses :
               IF response = "exception"
               THEN /\ discord_result' = Returned(FALSE)
                    /\ pc' = "returned"
                    /\ UNCHANGED posted
               ELSE /\ posted' = Append(posted,
                                    Message(FALSE, Chunk(ChunkStarts[Len(posted)]), response))
                    /\ IF response # "204"
                       THEN /\ discord_result' = Returned(FALSE)
                            /\ pc' = "returned"
                       ELSE /\ pc' = "chunks"
                            /\ UNCHANGED discord_result
    /\ UNCHANGED <<config, title_len, summary_len, deliverVars, emailVars, procVars,
                   fetchVars, parseVars, mainVars, schedVars, sentVars>>

NextDiscord == DiscordFirst \/ DiscordNext

SpecDiscord == InitDiscord /\ [][NextDiscord]_vars

----------------------------------------------------------------------------
(* Claims about NewsFetcher.fetch_news, checked under SpecFetch *)

\* the feeds fetch_news goes through, when sources and preferences are present
Jobs ==
    IF DOMAIN sources = {} \/ DOMAIN config = {} THEN <<>> ELSE FeedJobs(PreferredSources)

\* the entries of the feeds that were retrieved without an exception
RetrievedEntries ==
    UNION {Range(feeds[Jobs[i].feed_info.url].entries) :
           i \in {j \in 1..Len(Jobs) :
                    /\ "url" \in DOMAIN Jobs[j].feed_info
                    /\ feeds[Jobs[j].feed_info.url].ok}}

Unparseable(entry) == entry.published.s # "date"

\* the entries the cutoff check lets through
Surviving ==
    {e \in RetrievedEntries : Unparseable(e) \/ e.published.feedparser.t >= Cutoff}

EveryFeedHasUrl == \A i \in 1..Len(Jobs) : "url" \in DOMAIN Jobs[i].feed_info

\* the sort key the specification asks for: no timestamp sorts as the oldest value
DateKey(a) == IF a.published_parsed.some THEN a.published_parsed.t ELSE -1

\* C1: for any batch of two or more fetched entries, parseable dates or not,
\* fetch_news returns normally a list ordered by published_parsed descending,
\* the articles without a timestamp after all the others.
C1_SortedNewestFirstUndatedLast ==
    (pc = "fetched" /\ EveryFeedHasUrl /\ Cardinality(Surviving) >= 2) =>
        /\ fetch_result.status = "returned"
        /\ \A i, j \in 1..Len(fetch_result.value) :
              i < j => DateKey(fetch_result.value[i]) >= DateKey(fetch_result.value[j])

\* C5: every feed entry whose date cannot be parsed is in the list fetch_news
\* returns, whatever else is in the batch; it never makes fetch_news fail.
C5_UnparseableEntryIsReturned ==
    (pc = "fetched" /\ EveryFeedHasUrl) =>
        \A e \in RetrievedEntries :
            Unparseable(e) =>
                /\ fetch_result.status = "returned"
                /\ \E i \in 1..Len(fetch_result.value) : fetch_result.value[i].title = e.title

\* C6: when a feed raises (a feed entry of the configuration without url
\* included) or a preferred source is unknown, fetch_news does not raise and the
\* articles of all the other feeds are in the returned list. Stated for batches
\* in which every date parses.
C6_FailingFeedIsIsolated ==
    (pc = "fetched" /\ \A u \in Urls : \A e \in Range(feeds[u].entries) : ~Unparseable(e)) =>
        /\ fetch_result.status = "returned"
        /\ \A e \in Surviving :
              \E i \in 1..Len(fetch_result.value) : fetch_result.value[i].title = e.title

----------------------------------------------------------------------------
(* Claims about SentimentAnalyzer, checked under SpecSent and SpecClassify *)

\* C2: for a non-empty ticker list and any article list, the empty one
\* included, analyze_sentiment returns one bucket per configured ticker, all-zero
\* for a ticker no article mentions. Stated for the rule-based classifier.
C2_BucketForEveryTicker ==
    (pc = "analyzed" /\ config.tickers # <<>> /\ ~config.use_ai) =>
        /\ sentiment_results.status = "returned"
        /\ DOMAIN sentiment_results.value = Range(config.tickers)
        /\ \A t \in Range(config.tickers) :
              (\A i \in 1..Len(ranked_articles) :
                    ~TickerSearch(t, Content(store[ranked_articles[i]])))
                 => sentiment_results.value[t] = EmptyBucket

\* C3: with use_ai enabled, a failing AI call makes the classification return
\* the rule-based label of the same text; the failure is never propagated.
C3_AiFailureFallsBackToRules ==
    (pc = "classified" /\ config.use_ai /\ ai.fails > 0) =>
        article_sentiment = Returned(RuleBased(text))

\* whole-word occurrences of the word in s, each one counted
WordOccurrences(word, s) ==
    Cardinality({i \in 1..(Len(s) + 1) :
        /\ Boundary(s, i)
        /\ i + Len(word) - 1 <= Len(s)
        /\ \A k \in 1..Len(word) : s[i + k - 1] = word[k]
        /\ Boundary(s, i + Len(word))})

CountOccurrences(words, s) ==
    SumSeq([j \in 1..Len(words) |-> WordOccurrences(words[j], LowerText(s))])

\* the label the claim gives: every whole-word occurrence counted
LabelByOccurrences(s) ==
    LET positive_count == CountOccurrences(positive_words, s)
        negative_count == CountOccurrences(negative_words, s)
    IN  IF positive_count > negative_count THEN "positive"
        ELSE IF negative_count > positive_count THEN "negative"
        ELSE "neutral"

\* C4: the rule-based label compares the number of whole-word occurrences of
\* positive words with that of negative words in the lower-cased text, a word
\* that appears twice counting twice.
C4_LabelCountsEveryOccurrence ==
    (pc = "classified" /\ ~config.use_ai) =>
        article_sentiment = Returned(LabelByOccurrences(text))

----------------------------------------------------------------------------
(* Claims about NewsProcessor, checked under SpecProc *)

\* position of the object x in the list l
PosIn(l, x) == CHOOSE i \in 1..Len(l) : l[i] = x

\* filtering was applied: enabled, and at least one ticker or keyword configured
FilterApplied == pc \in {"filtered", "ranked"} /\ ~use_all_articles /\ RankCriteria

MatchesTicker(id) ==
    \E j \in 1..Len(config.tickers) : TickerSearch(config.tickers[j], Content(store[id]))

MatchesKeyword(id) ==
    \E j \in 1..Len(config.keywords) : KeywordSearch(config.keywords[j], Content(store[id]))

\* C7: with filtering enabled and a ticker or keyword configured, filter_articles
\* returns exactly the input articles that match a ticker pattern or a keyword
\* pattern, none added or duplicated, in their input order.
C7_FilterKeepsExactlyMatches ==
    FilterApplied =>
        /\ \A i \in 1..Len(filtered_articles) : filtered_articles[i] \in Range(articles)
        /\ \A i, j \in 1..Len(filtered_articles) :
              i < j => PosIn(articles, filtered_articles[i]) < PosIn(articles, filtered_articles[j])
        /\ \A id \in Range(articles) :
              id \in Range(filtered_articles) <=> (MatchesTicker(id) \/ MatchesKeyword(id))

\* a ticker-only match and a keyword-only match are kept, a third article is removed
C7_Witness ==
    /\ pc = "filtered" /\ FilterApplied
    /\ config.tickers # <<>> /\ config.keywords # <<>>
    /\ \E id \in Range(filtered_articles) : MatchesTicker(id) /\ ~MatchesKeyword(id)
    /\ \E id \in Range(filtered_articles) : ~MatchesTicker(id) /\ MatchesKeyword(id)
    /\ \E id \in Range(articles) : id \notin Range(filtered_articles)

\* the literal characters of p occur in s as a whole word, ignoring case
OccursAsWholeWord(p, s) ==
    \E i \in 1..(Len(s) + 1) :
        LitAt(p, s, i) /\ ~WordAt(s, i - 1) /\ ~WordAt(s, i + Len(p))

\* the literal characters of p occur anywhere in s, ignoring case
OccursAnywhere(p, s) == \E i \in 1..(Len(s) + 1) : LitAt(p, s, i)

\* C8: a ticker matches exactly when its literal characters occur as a whole
\* word (not next to a letter, digit or underscore), also for tickers that begin
\* or end with a non-alphanumeric character; a keyword matches exactly when its
\* literal characters occur anywhere. Observed through what the filter keeps.
C8_TickerIsLiteralWholeWord ==
    FilterApplied =>
        \A id \in Range(articles) :
            id \in Range(filtered_articles) <=>
                \/ \E j \in 1..Len(config.tickers) :
                      OccursAsWholeWord(config.tickers[j], Content(store[id]))
                \/ \E j \in 1..Len(config.keywords) :
                      OccursAnywhere(config.keywords[j], Content(store[id]))

Ranked == pc \in {"ranked", "reranked"} /\ RankCriteria

\* the positions of s at which some configured ticker pattern matches
TickerPositions(s) ==
    {q \in (1..Len(config.tickers)) \X (1..(Len(s) + 1)) :
        TickerMatchAt(config.tickers[q[1]], s, q[2])}

\* C9: relevance_score = ticker occurrences + keyword occurrences in
\* title + " " + summary, plus twice the ticker and keyword occurrences in the
\* title; one ticker occurrence in the title scores 3, one in the summary only 1.
C9_RelevanceScoreFormula ==
    Ranked =>
        \A id \in Range(ranked_articles) :
            LET a == store[id]
                total == TickerCount(config.tickers, Content(a))
                             + KeywordCount(config.keywords, Content(a))
                inTitle == TickerCount(config.tickers, a.title)
                             + KeywordCount(config.keywords, a.title)
                oneOccurrence == /\ config.keywords = <<>>
                                 /\ Cardinality(TickerPositions(Content(a))) = 1
            IN  /\ a.relevance_score = total + 2 * inTitle
                /\ oneOccurrence /\ Cardinality(TickerPositions(a.title)) = 1
                      => a.relevance_score = 3
                /\ oneOccurrence /\ TickerPositions(a.title) = {}
                      => a.relevance_score = 1

\* an article with two occurrences in its title: counted twice, weighted by 2
C9_Witness ==
    /\ Ranked
    /\ \E id \in Range(ranked_articles) :
          /\ TickerCount(config.tickers, store[id].title)
                + KeywordCount(config.keywords, store[id].title) = 2
          /\ store[id].relevance_score = 6

\* C10: the list rank_articles returns is a permutation of its input, in
\* non-increasing relevance_score order, equal scores in their input order.
C10_RankIsStableDescendingPermutation ==
    Ranked =>
        /\ Len(ranked_articles) = Len(filtered_articles)
        /\ Range(ranked_articles) = Range(filtered_articles)
        /\ \A i, j \in 1..Len(ranked_articles) :
              i < j =>
                /\ store[ranked_articles[i]].relevance_score
                      >= store[ranked_articles[j]].relevance_score
                /\ store[ranked_articles[i]].relevance_score
                      = store[ranked_articles[j]].relevance_score
                      => PosIn(filtered_articles, ranked_articles[i])
                            < PosIn(filtered_articles, ranked_articles[j])

\* two different articles tie on a positive score
C10_Witness ==
    /\ pc = "ranked" /\ RankCriteria
    /\ \E i, j \in 1..Len(ranked_articles) :
          /\ i < j
          /\ store[ranked_articles[i]].relevance_score = store[ranked_articles[j]].relevance_score
          /\ store[ranked_articles[i]].relevance_score > 0
          /\ store[ranked_articles[i]].title # store[ranked_articles[j]].title

\* C12: filter_articles returns its input list unchanged when filtering is
\* disabled, whatever is configured, and when filtering is enabled but neither
\* a ticker nor a keyword is configured.
C12_FilterIdentityWhenBypassed ==
    (pc \in {"filtered", "ranked", "reranked"} /\ (use_all_articles \/ ~RankCriteria)) =>
        filtered_articles = articles

\* filtering is disabled for a list with an article the filter would remove
C12_Witness ==
    /\ pc = "filtered" /\ use_all_articles /\ RankCriteria
    /\ filtered_articles = articles
    /\ \E id \in Range(articles) : ~MatchesTicker(id) /\ ~MatchesKeyword(id)
    /\ \E id \in Range(articles) : MatchesTicker(id) \/ MatchesKeyword(id)

\* C13: without tickers and keywords rank_articles returns the articles in
\* their input order and assigns no relevance_score to any article.
C13_NoCriteriaNoScoring ==
    (pc \in {"ranked", "reranked"} /\ ~RankCriteria) =>
        /\ ranked_articles = filtered_articles
        /\ \A id \in DOMAIN store : "relevance_score" \notin DOMAIN store[id]

\* two or more different articles went through rank_articles without criteria
C13_Witness ==
    /\ pc = "ranked" /\ ~RankCriteria
    /\ Len(ranked_articles) >= 2
    /\ store[ranked_articles[1]] # store[ranked_articles[2]]

\* C14: a second run of rank_articles, on the same unranked list or on the
\* ranked one, leaves every relevance_score as the first run set it and returns
\* the order the first run returned.
C14_RankingTwiceChangesNothing ==
    [][(pc = "ranked" /\ pc' = "reranked") =>
          (store' = store /\ reranked_articles' = ranked_articles)]_vars

\* the first run reordered articles with positive scores, then the second ran
C14_Witness ==
    /\ pc = "reranked" /\ RankCriteria
    /\ ranked_articles # filtered_articles
    /\ reranked_articles = ranked_articles
    /\ \E id \in Range(ranked_articles) : store[id].relevance_score > 0

\* C15: with a ticker or keyword configured, the articles filter_articles
\* keeps are exactly those rank_articles scores 1 or more; after an enabled
\* filter every ranked article has a positive score.
C15_KeptIffPositiveScore ==
    Ranked =>
        /\ \A id \in Range(ranked_articles) :
              store[id].relevance_score >= 1
                 <=> id \in Range(FilterLoop(articles, store, config.tickers, config.keywords))
        /\ ~use_all_articles =>
              \A id \in Range(ranked_articles) : store[id].relevance_score >= 1

\* with filtering bypassed, a score of 0 stands next to a positive score that
\* comes from the summary alone
C15_Witness ==
    /\ pc = "ranked" /\ RankCriteria /\ use_all_articles
    /\ \E id \in Range(ranked_articles) : store[id].relevance_score = 0
    /\ \E id \in Range(ranked_articles) :
          store[id].relevance_score = 1 /\ store[id].title = <<>>

\* the list analyze_sentiment was given
SentInput == [i \in 1..Len(ranked_articles) |-> store[ranked_articles[i]]]

\* the positions of the input articles that mention ticker t, in input order
MentionsOf(t) ==
    SelectSeq([i \in 1..Len(SentInput) |-> i],
              LAMBDA i : TickerSearch(t, Content(SentInput[i])))

\* C16: in the result of analyze_sentiment the articles list of a ticker's
\* bucket is the sequence of input articles that mention the ticker, in input
\* order, one record {title, sentiment, source, link} each; an article that
\* mentions several tickers has the same label in each bucket, and an article
\* that mentions none is in no bucket and in no counter.
C16_BucketListsMentioningArticles ==
    (pc = "analyzed" /\ sentiment_results.status = "returned") =>
        LET res == sentiment_results.value
        IN  /\ \A t \in DOMAIN res :
                  LET m == MentionsOf(t)
                      recs == res[t].articles
                  IN  /\ Len(recs) = Len(m)
                      /\ res[t].positive + res[t].negative + res[t].neutral = Len(m)
                      /\ \A k \in 1..Len(recs) :
                            /\ DOMAIN recs[k] = {"title", "sentiment", "source", "link"}
                            /\ recs[k].title = SentInput[m[k]].title
                            /\ recs[k].source = SentInput[m[k]].source
                            /\ recs[k].link = SentInput[m[k]].link
            /\ \A t1, t2 \in DOMAIN res :
                  \A k1 \in 1..Len(res[t1].articles), k2 \in 1..Len(res[t2].articles) :
                      (k1 <= Len(MentionsOf(t1)) /\ k2 <= Len(MentionsOf(t2))
                          /\ MentionsOf(t1)[k1] = MentionsOf(t2)[k2])
                        => res[t1].articles[k1].sentiment = res[t2].articles[k2].sentiment

\* one article sits in two buckets, another one in none
C16_Witness ==
    /\ pc = "analyzed" /\ sentiment_results.status = "returned"
    /\ Cardinality(DOMAIN sentiment_results.value) = 2
    /\ \E i \in 1..Len(SentInput) :
          \A t \in DOMAIN sentiment_results.value : i \in Range(MentionsOf(t))
    /\ \E i \in 1..Len(SentInput) :
          \A t \in DOMAIN sentiment_results.value : i \notin Range(MentionsOf(t))

----------------------------------------------------------------------------
(* Claims about the cutoff, the configuration files and duplicates, checked
   under SpecFetch *)

\* the entries of the feeds fetch_news retrieved
ProcessedEntries ==
    UNION {Range(feeds[retrieved[i]].entries) : i \in 1..Len(retrieved)}

DateOf(e) == e.published.feedparser.t

StrictlyOlder(e) == ~Unparseable(e) /\ DateOf(e) < Cutoff

CollectedAt(e) == {i \in 1..Len(all_articles) : all_articles[i].title = e.title}

ReturnedAt(e) ==
    {i \in 1..Len(fetch_result.value) : fetch_result.value[i].title = e.title}

\* C11: fetch_news drops an entry of a retrieved feed if and only if its date
\* parses and is strictly earlier than the cutoff: the entry dated exactly at
\* the cutoff and every later or undated one is in the collected list, the one
\* dated a second before the cutoff is not; the same holds of the list returned.
C11_DroppedIffStrictlyOlderThanCutoff ==
    pc = "fetched" =>
        /\ \A e \in ProcessedEntries : (CollectedAt(e) = {}) <=> StrictlyOlder(e)
        /\ fetch_result.status = "returned" =>
              \A e \in ProcessedEntries : (ReturnedAt(e) = {}) <=> StrictlyOlder(e)

C11_Witness ==
    /\ pc = "fetched"
    /\ fetch_result.status = "returned"
    /\ \E e1, e2, e3 \in ProcessedEntries :
          /\ ~Unparseable(e1) /\ DateOf(e1) = Cutoff /\ ReturnedAt(e1) # {}
          /\ ~Unparseable(e2) /\ DateOf(e2) = Cutoff - 1 /\ ReturnedAt(e2) = {}
          /\ ~Unparseable(e3) /\ DateOf(e3) = Cutoff + 1 /\ ReturnedAt(e3) # {}

\* the sources file gives no sources, or the configuration file no preferences
NothingConfigured ==
    \/ sources_file.kind # "json"
    \/ (IF "sources" \in DOMAIN sources_file.content
        THEN DOMAIN sources_file.content.sources = {}
        ELSE TRUE)
    \/ config_file.kind # "json"
    \/ (IF "news_sources" \in DOMAIN config_file.content
        THEN config_file.content.news_sources = <<>>
        ELSE TRUE)

\* C17: when the sources file is missing, not JSON or without sources, when the
\* configuration file is missing, not JSON or empty, or when it names no
\* preferred sources, fetch_news returns the empty list and retrieves no feed.
C17_NothingConfiguredReturnsEmpty ==
    (pc = "fetched" /\ NothingConfigured) =>
        /\ fetch_result = Returned(<<>>)
        /\ retrieved = <<>>

C17_Witness ==
    /\ pc = "fetched"
    /\ config_file.kind = "missing"
    /\ sources_file.kind = "json"
    /\ DOMAIN sources # {}
    /\ \E u \in Urls : feeds[u].ok /\ feeds[u].entries # <<>>
    /\ fetch_result = Returned(<<>>)
    /\ retrieved = <<>>

SurvivingProcessed == {e \in ProcessedEntries : ~StrictlyOlder(e)}

\* C18: fetch_news collects exactly one article for each entry of a retrieved
\* feed that survives the cutoff check, entries with the same link included, so
\* the collected list, and the returned list, is as long as there are survivors.
C18_OneArticlePerSurvivingEntry ==
    pc = "fetched" =>
        /\ Len(all_articles) = Cardinality(SurvivingProcessed)
        /\ \A e \in SurvivingProcessed : Cardinality(CollectedAt(e)) = 1
        /\ fetch_result.status = "returned" =>
              /\ Len(fetch_result.value) = Cardinality(SurvivingProcessed)
              /\ \A e \in SurvivingProcessed : Cardinality(ReturnedAt(e)) = 1

C18_Witness ==
    /\ pc = "fetched"
    /\ fetch_result.status = "returned"
    /\ Len(fetch_result.value) = MaxEntries
    /\ \A i, j \in 1..Len(fetch_result.value) :
          fetch_result.value[i].link = fetch_result.value[j].link
    /\ \E i, j \in 1..Len(fetch_result.value) :
          fetch_result.value[i].category # fetch_result.value[j].category
    /\ \E i, j \in 1..Len(fetch_result.value) :
          i # j /\ fetch_result.value[i].category = fetch_result.value[j].category

----------------------------------------------------------------------------
(* Claims about NewsFetcher._parse_date, checked under SpecParse *)

Accepting(str) == {i \in 1..Len(formats) : str.strptime[i].ok}

FirstAccepting(str) == CHOOSE i \in Accepting(str) : \A j \in Accepting(str) : i <= j

\* what the specification asks of _parse_date, from what the library calls do
ExpectedDate(str) ==
    IF str.s = "" THEN [some |-> FALSE, t |-> 0, aware |-> FALSE]
    ELSE IF str.feedparser.kind = "tuple"
         THEN [some |-> TRUE, t |-> str.feedparser.t, aware |-> FALSE]
         ELSE IF Accepting(str) # {}
              THEN [some |-> TRUE, t |-> str.strptime[FirstAccepting(str)].t,
                    aware |-> FALSE]
              ELSE [some |-> FALSE, t |-> 0, aware |-> FALSE]

\* C19: _parse_date never raises: it returns the naive timestamp of the
\* permissive parser when that accepts the string, else that of the first listed
\* format that accepts it, and None for the empty string or when nothing accepts.
C19_ParseDateNeverRaisesFirstFormatWins ==
    pc = "parsed" => parse_result = Returned(ExpectedDate(date_str))

C19_Witness ==
    /\ pc = "parsed"
    /\ date_str.s # ""
    /\ date_str.feedparser.kind = "raises"
    /\ date_str.feedparser.exc = "AttributeError"
    /\ Accepting(date_str) = {3, 5}
    /\ parse_result.status = "returned"
    /\ parse_result.value = [some |-> TRUE, t |-> 3, aware |-> FALSE]

----------------------------------------------------------------------------
(* Claims about generate_news_summary, checked under SpecMain *)

DownstreamStages ==
    {"analyze_sentiment", "fetch_stock_prices", "generate_summary",
     "export_to_markdown", "export_to_pdf", "deliver_summary"}

DownstreamInvoked == \E i \in 1..Len(calls) : calls[i] \in DownstreamStages

\* C20: a run of generate_news_summary invokes sentiment analysis, stock price
\* lookup, summarization, export or delivery only when fetch_news returned a
\* non-empty list and the ranked list is non-empty; a run whose fetched or
\* ranked list is empty ends having invoked none of them.
C20_DownstreamOnlyWithRankedArticles ==
    /\ DownstreamInvoked =>
          /\ fetch_result.status = "returned"
          /\ fetch_result.value # <<>>
          /\ ranked_articles # <<>>
    /\ (/\ "fetch_news" \in Range(calls)
        /\ fetch_result.status = "returned"
        /\ fetch_result.value = <<>>) => (pc = "done" /\ calls = <<"fetch_news">>)
    /\ ("rank_articles" \in Range(calls) /\ ranked_articles = <<>>) =>
          (pc = "done" /\ calls = <<"fetch_news", "filter_articles", "rank_articles">>)

C20_Witness ==
    /\ pc = "done"
    /\ fetch_result.status = "returned"
    /\ fetch_result.value # <<>>
    /\ ranked_articles = <<>>
    /\ calls = <<"fetch_news", "filter_articles", "rank_articles">>

\* C21: the list handed to the summarizer is the prefix of the ranked list of
\* length min(20, number of ranked articles): never more than 20 articles, in
\* ranked order, no lower-ranked article in place of a higher-ranked one.
C21_SummaryGetsTopTwentyPrefix ==
    "generate_summary" \in Range(calls) =>
        /\ Len(summary_articles) <= 20
        /\ Len(summary_articles) =
              (IF Len(ranked_articles) < 20 THEN Len(ranked_articles) ELSE 20)
        /\ \A i \in 1..Len(summary_articles) : summary_articles[i] = ranked_articles[i]

\* more than 20 ranked articles, reordered by the ranking, reached the summarizer
C21_Witness ==
    /\ "generate_summary" \in Range(calls)
    /\ Len(ranked_articles) > 20
    /\ ranked_articles # filtered_articles
    /\ Len(summary_articles) = 20

----------------------------------------------------------------------------
(* Claims about schedule_daily_summary, checked under SpecSched *)

RunStarts == active_runs' > active_runs

\* C22: runs of the pipeline never overlap: the loop starts a run only when no
\* run is in progress, and only when a scheduled time has passed since the last
\* run started, so that each scheduled time starts at most one run.
C22_RunsNeverOverlapOnePerTick ==
    /\ [](active_runs <= 1)
    /\ [][RunStarts => (active_runs = 0 /\ unserved_ticks >= 1)]_vars

\* a run has returned after a scheduled time passed during it, and the job is
\* not due: the time that passed starts no run of its own
C22_Witness ==
    /\ pc = "sleep"
    /\ active_runs = 0
    /\ unserved_ticks >= 1
    /\ next_run >= 1

\* C26: once a scheduled run has raised, schedule_daily_summary has returned
\* and no run starts any more; unless a run raises, the loop it has entered
\* comes back to checking for due runs forever.
C26_RaiseEndsLoopElseLoopsForever ==
    /\ [](run_raised => pc = "returned")
    /\ [][run_raised => ~RunStarts]_vars
    /\ [](pc = "loop" => (<>run_raised \/ []<>(pc = "loop")))

C26_Witness ==
    /\ run_raised
    /\ pc = "returned"
    /\ active_runs = 0
    /\ unserved_ticks >= 1

----------------------------------------------------------------------------
(* Claims about DeliveryManager.deliver_summary, checked under SpecDeliver *)

\* the delivery section of the configuration file, when it has one
HasDeliverySection ==
    /\ delivery_file.kind = "json"
    /\ "delivery" \in DOMAIN delivery_file.content

\* the method is switched on in the configuration file
EnabledInFile(m) ==
    /\ HasDeliverySection
    /\ m \in DOMAIN delivery_file.content.delivery
    /\ "enabled" \in DOMAIN delivery_file.content.delivery[m]
    /\ delivery_file.content.delivery[m].enabled

\* C23: deliver_summary returns True if and only if at least one enabled method
\* reported success; it returns False without a delivery configuration, with
\* no method enabled, and when every enabled method failed.
C23_TrueIffAnEnabledMethodSucceeded ==
    pc = "returned" =>
        /\ deliver_result.status = "returned"
        /\ deliver_result.value =
              (\E m \in Range(Methods) : EnabledInFile(m) /\ method_outcome[m] = "ok")

\* the first enabled method delivered, a later one raised and another failed
C23_Witness ==
    /\ pc = "returned"
    /\ deliver_result = Returned(TRUE)
    /\ EnabledInFile("ntfy") /\ method_outcome["ntfy"] = "ok"
    /\ EnabledInFile("telegram") /\ method_outcome["telegram"] = "exception"
    /\ EnabledInFile("discord") /\ method_outcome["discord"] = "failed"

\* the enabled methods among the first n, in the fixed order
EnabledUpTo(n) == SelectSeq(SubSeq(Methods, 1, n), EnabledInFile)

\* the methods deliver_summary has gone past
Passed ==
    IF pc \in {"return", "returned"} THEN Len(Methods)
    ELSE IF pc = "start" THEN 0
    ELSE (CHOOSE i \in 1..Len(Methods) : Methods[i] = pc) - 1

\* C24: deliver_summary calls every enabled method exactly once, in the order
\* ntfy, email, telegram, discord, whatever the methods called before did, and
\* never calls a method that is not enabled.
C24_EveryEnabledMethodOnceInOrder ==
    attempted = (IF HasDeliverySection THEN EnabledUpTo(Passed) ELSE <<>>)

\* all four methods were called although the first delivered and the second raised
C24_Witness ==
    /\ pc = "returned"
    /\ attempted = Methods
    /\ method_outcome["ntfy"] = "ok"
    /\ method_outcome["email"] = "exception"
    /\ method_outcome["telegram"] = "failed"

----------------------------------------------------------------------------
(* Claims about DeliveryManager._deliver_via_email, checked under SpecEmail
   and SpecEmailLive *)

LastAttempt == attempts[Len(attempts)]

AttemptStarts == Len(attempts') > Len(attempts)

ConnectionTrouble == {"TimeoutError", "SMTPServerDisconnected", "ConnectionRefusedError"}

\* C27: _deliver_via_email makes at most 3 SMTP attempts and always returns:
\* a further attempt starts only after attempt 1 or 2 ended in a timeout, a
\* server disconnect or a refused connection; after any other exception it has
\* returned False, with no further attempt.
C27_AtMostThreeAttemptsAndTerminates ==
    /\ [](Len(attempts) <= 3)
    /\ [][(AttemptStarts /\ attempts # <<>>) =>
             (LastAttempt.exc \in ConnectionTrouble /\ Len(attempts) <= 2)]_vars
    /\ []((/\ attempts # <<>>
           /\ LastAttempt.raised_at # "none"
           /\ LastAttempt.exc \notin ConnectionTrouble) =>
             (pc = "returned" /\ email_result.value = FALSE))
    /\ <>(pc = "returned")

\* the third attempt was made after two connection failures and failed as well
C27_Witness ==
    /\ pc = "returned"
    /\ Len(attempts) = 3
    /\ attempts[1].exc = "TimeoutError"
    /\ attempts[2].exc = "SMTPServerDisconnected"
    /\ attempts[3].exc = "ConnectionRefusedError"
    /\ email_result.value = FALSE

\* C28: _deliver_via_email returns True only when, on its last attempt, login
\* and send_message completed and nothing raised; the return True after the
\* retry loop is never reached, so exhausted retries yield False.
C28_TrueOnlyAfterLoginAndSend ==
    pc = "returned" =>
        /\ email_result.value = TRUE =>
              /\ attempts # <<>>
              /\ LastAttempt.raised_at = "none"
              /\ email_result.at = "sent"
        /\ email_result.at # "after loop"
        /\ (/\ Len(attempts) = max_retries + 1
            /\ LastAttempt.raised_at # "none") => email_result.value = FALSE

\* the message went out on the third attempt, after two connection failures
C28_Witness ==
    /\ pc = "returned"
    /\ Len(attempts) = 3
    /\ attempts[1].exc \in ConnectionTrouble
    /\ attempts[2].exc \in ConnectionTrouble
    /\ attempts[3].raised_at = "none"
    /\ email_result.value = TRUE

----------------------------------------------------------------------------
(* Claims about DeliveryManager._deliver_via_discord, checked under SpecDiscord *)

\* the characters of a posted message
MessageLen(m) == (IF m.header THEN title_len + 6 ELSE 0) + (m.hi - m.lo)

\* the posted parts follow one another in the summary, from its start
PartsInOrder ==
    \A i \in 1..Len(posted) :
        /\ posted[i].header = (i = 1)
        /\ posted[i].lo = (IF i = 1 THEN 0 ELSE posted[i - 1].hi)

\* C29: the messages _deliver_via_discord posts carry, in posting order and
\* without the title header of the first, consecutive parts of the summary that
\* make up the whole of it when the method returns True; every posted message
\* has at most 2000 characters; nothing is posted after a response other than
\* 204, and True is returned only if every part got 204.
C29_PartsMakeSummaryWithinLimit ==
    /\ PartsInOrder
    /\ \A i \in 1..Len(posted) : MessageLen(posted[i]) <= 2000
    /\ \A i \in 1..(Len(posted) - 1) : posted[i].status = "204"
    /\ (pc = "returned" /\ discord_result.value = TRUE) =>
          /\ posted # <<>>
          /\ posted[Len(posted)].hi = summary_len
          /\ \A i \in 1..Len(posted) : posted[i].status = "204"

----------------------------------------------------------------------------
(* Claims about what filter_articles and rank_articles change, checked under
   SpecProc *)

FilterStep == pc = "start" /\ pc' = "filtered"

RankStep == pc = "filtered" /\ pc' = "ranked"

\* the article keeps every field but relevance_score, and gains no other
FieldsKept(id) ==
    /\ DOMAIN store'[id] \subseteq DOMAIN store[id] \cup {"relevance_score"}
    /\ \A f \in DOMAIN store[id] \ {"relevance_score"} :
          f \in DOMAIN store'[id] /\ store'[id][f] = store[id][f]

\* filter_articles and rank_articles leave the list they are given and every
\* field of every article but relevance_score as they were
ArgumentsKept ==
    /\ FilterStep => (store' = store /\ articles' = articles)
    /\ RankStep =>
          /\ filtered_articles' = filtered_articles
          /\ DOMAIN store' = DOMAIN store
          /\ \A id \in DOMAIN store : FieldsKept(id)

\* C30 as stated: filter_articles changes no article and not the list it is
\* given; rank_articles leaves the list it is given as it was, changes no field
\* but relevance_score, and always returns the ranked order as a separate list.
C30_ArgumentsKeptSeparateList ==
    [][ArgumentsKept /\ (RankStep => ~ranked_is_argument')]_vars

\* C30, amended: as above, but rank_articles returns a separate list only when
\* the list is empty or a ticker or keyword is configured; with no ticker and
\* no keyword it returns the very list object it was given.
C30_ArgumentsKeptSeparateListWhenSorted ==
    [][/\ ArgumentsKept
       /\ RankStep =>
             (ranked_is_argument' =
                 (/\ filtered_articles # <<>>
                  /\ config.tickers = <<>>
                  /\ config.keywords = <<>>))]_vars

\* the ranking reordered the articles into a new list and scored them
C30_Witness ==
    /\ pc = "ranked"
    /\ RankCriteria
    /\ ~ranked_is_argument
    /\ ranked_articles # filtered_articles
    /\ \E id \in Range(ranked_articles) : store[id].relevance_score > 0

----------------------------------------------------------------------------
(* The counters of a bucket against its records, checked under SpecSent *)

\* the records of bucket b that carry label l
Carrying(b, l) == {k \in 1..Len(b.articles) : b.articles[k].sentiment = l}

\* C25: in every result of analyze_sentiment and for every ticker bucket,
\* positive + negative + neutral is the length of the articles list, each
\* counter is the number of records carrying its label, and every record's
\* sentiment is positive, negative or neutral, also when the AI classifier
\* gave the label.
C25_CountersMatchRecords ==
    (pc = "analyzed" /\ sentiment_results.status = "returned") =>
        \A t \in DOMAIN sentiment_results.value :
            LET b == sentiment_results.value[t]
            IN  /\ b.positive + b.negative + b.neutral = Len(b.articles)
                /\ \A l \in Labels : b[l] = Cardinality(Carrying(b, l))
                /\ \A k \in 1..Len(b.articles) : b.articles[k].sentiment \in Labels

\* the AI classifier answered with no label word and two articles went in a bucket
C25_Witness ==
    /\ pc = "analyzed" /\ sentiment_results.status = "returned"
    /\ config.use_ai /\ ai.fails = 0 /\ ai.answer = <<"unclear">>
    /\ \E t \in DOMAIN sentiment_results.value :
          /\ Len(sentiment_results.value[t].articles) = 2
          /\ sentiment_results.value[t].neutral = 2
====
